---------------------------- MODULE Spec2Model ----------------------------
(***************************************************************************)
(* Underwriting decision engine of the loan-origination pipeline           *)
(* (src/src/agents/underwriting_agent.py) and the orchestrator node that   *)
(* calls it (src/src/agents/orchestrator.py).                              *)
(*                                                                         *)
(* Conventions of the model                                                *)
(*  - money is in whole currency units; the EMI, which the code keeps as a *)
(*    float, is a fixed-point number with EmiScale units per currency unit *)
(*  - confidences (floats in 0..1 in the code) are in hundredths           *)
(*  - a Python value that may be None is a sequence of length 0 or 1       *)
(*  - a raw request field is a pair <<kind, value>>: kind is "missing"     *)
(*    (key absent or None), "empty" (""), "bad" (a non-numeric string) or  *)
(*    "num"                                                                *)
(*  - the free-text fields (message, ocr_matched_line, ocr_source) carry   *)
(*    no decision and are left out of the records                          *)
(***************************************************************************)
EXTENDS Integers, Sequences, FiniteSets, TLC

VARIABLES customers, pc, content, bureau, decision_obj, underwriting_result,
          clock, issued, run, stages, sanction_result, reply, rendered,
          conversations, shadow, call, invoked

\* the state of one evaluation, and the state of a pipeline run around it
engine_vars == <<customers, pc, content, bureau, decision_obj, underwriting_result>>
flow_vars == <<clock, issued, run, stages, sanction_result, reply, rendered>>
\* the conversation table of the master agent, the same table had no
\* clean-up ever run, the last call made to the agent and its answer, and
\* the worker agents that call invoked
conv_vars == <<conversations, shadow, call, invoked>>
vars == <<customers, pc, content, bureau, decision_obj, underwriting_result,
          clock, issued, run, stages, sanction_result, reply, rendered,
          conversations, shadow, call, invoked>>

-----------------------------------------------------------------------------
(* Python values *)

None == <<>>
Some(x) == <<x>>
IsNone(o) == o = <<>>
Val(o) == o[1]

Missing == <<"missing", 0>>
Empty == <<"empty", 0>>
Bad == <<"bad", 0>>
Num(n) == <<"num", n>>

\* `content.get(k) not in (None, "")`
Present(x) == x[1] \notin {"missing", "empty"}
\* Python truthiness of a raw value: None, "" and 0 are falsy
Truthy(x) == x[1] = "bad" \/ (x[1] = "num" /\ x[2] # 0)
\* float(x) / int(x) succeeds
Parses(x) == x[1] = "num"

-----------------------------------------------------------------------------
(* Bounds of the model *)

\* requested amounts are 0, 50, ..., MaxAmountSteps * 50
MaxAmountSteps == 5
Amounts == {k * 50 : k \in 0..MaxAmountSteps}

\* the one customer of the database, and an id the database does not hold
KnownId == "CUST2001"
UnknownId == "CUST9999"
NoId == ""

-----------------------------------------------------------------------------
(* Policy constants of the engine *)

ScoreThreshold == 700
BaseRate == 12
HighRate == 14
HighRateFee == 5000
DefaultTenure == 36
MismatchRatio == 3
LowConfidence == 45
OrchestratorDefaultTenure == 12
SalesDefaultOffer == 500000

EmiScale == 10 ^ 5
PowScale == 10 ^ 6

-----------------------------------------------------------------------------
(* NBFCDatabase.get_customer *)
\* variant: an unknown id is answered with the row of the known customer
get_customer_AnyRow(db, customer_id) ==
    IF customer_id \in DOMAIN db THEN Some(db[customer_id]) ELSE Some(db[KnownId])

get_customer(db, customer_id) ==
    IF customer_id \in DOMAIN db THEN Some(db[customer_id]) ELSE None

-----------------------------------------------------------------------------
(* UnderwritingAgent._emi: (1+r)^months in fixed point, r = annual_rate/12/100 *)
RECURSIVE Pow1pR(_, _)
Pow1pR(annual_rate, months) ==
    IF months = 0 THEN PowScale
    ELSE (Pow1pR(annual_rate, months - 1) * (1200 + annual_rate)) \div 1200

\* the EMI in 1/EmiScale currency units
_emi(principal, annual_rate, months) ==
    IF months <= 0 THEN 0
    ELSE IF annual_rate = 0 THEN (principal * EmiScale) \div months
    ELSE LET pw == Pow1pR(annual_rate, months)
             rpw == (annual_rate * pw) \div 1200
             factor == (rpw * EmiScale) \div (pw - PowScale)
         IN  principal * factor

\* int(ceil(emi_val))
CeilEmi(emi_val) == (emi_val + EmiScale - 1) \div EmiScale

-----------------------------------------------------------------------------
(* UnderwritingAgent._extract_salary_from_text applied to the text OCR got  *)
(* from a document: the salary found (None when nothing was found) and the  *)
(* confidence of the rule that found it.  A document of the model is        *)
(* identified with what the extraction returns for it.                      *)
NoExtract == [monthly_salary |-> None, confidence |-> 0]
Extract(salary, confidence) == [monthly_salary |-> Some(salary), confidence |-> confidence]

\* `if res.get("monthly_salary")`
ExtractFound(res) == ~IsNone(res.monthly_salary) /\ Val(res.monthly_salary) # 0

\* the loop over uploaded_docs: the first salary slip with bytes whose
\* extraction finds a salary
RECURSIVE FirstSlipExtract(_)
FirstSlipExtract(docs) ==
    IF docs = <<>> THEN None
    ELSE LET d == Head(docs)
         IN  IF d.doc_type = "salary_slip" /\ d.has_bytes /\ ExtractFound(d.res)
             THEN Some(d.res)
             ELSE FirstSlipExtract(Tail(docs))

-----------------------------------------------------------------------------
(* UnderwritingAgent.handle, piece by piece *)

\* float(content.get("loan_amount", 0) or 0), 0.0 on an exception
CoerceAmount(raw) == IF Truthy(raw) /\ Parses(raw) THEN raw[2] ELSE 0

\* int(content.get("tenure_months", 36) or 36), 36 on an exception
CoerceTenure(raw) == IF Truthy(raw) /\ Parses(raw) THEN raw[2] ELSE DefaultTenure

\* an optional float read from one key: None unless present and parsable
ReadFloat(raw) == IF Present(raw) /\ Parses(raw) THEN Some(raw[2]) ELSE None

\* `if x:` for an optional float
Nonzero(o) == ~IsNone(o) /\ Val(o) # 0

\* the loop over the keys monthly_salary_from_underwriting,
\* monthly_salary_used, extracted_monthly_salary: the first one that is
\* present and parses
RECURSIVE FirstAltKey(_)
FirstAltKey(raws) ==
    IF raws = <<>> THEN None
    ELSE IF Present(Head(raws)) /\ Parses(Head(raws)) THEN Some(Head(raws)[2])
    ELSE FirstAltKey(Tail(raws))

\* doc_monthly_salary
DocMonthlySalary(c) ==
    LET first == ReadFloat(c.monthly_salary_from_docs)
    IN  IF Nonzero(first) THEN first
        ELSE LET alt == FirstAltKey(c.alt_doc_keys)
             IN  IF IsNone(alt) THEN first ELSE alt

\* the credit score the gates use: the bureau's when the call answered 200
\* with a score, the stored one otherwise
\* variant: a failed refresh leaves no score at all
CreditScoreUsed_ZeroOnFailure(customer, bureau_resp) ==
    IF bureau_resp.ok THEN bureau_resp.credit_score ELSE 0

\* variant: the bureau's refreshed score is never taken
CreditScoreUsed_StoredOnly(customer, bureau_resp) == customer.credit_score

CreditScoreUsed(customer, bureau_resp) ==
    IF bureau_resp.ok THEN bureau_resp.credit_score ELSE customer.credit_score

\* OCR done by the engine: (ocr_monthly_salary, ocr_conf)
OcrHere(c, doc_salary) ==
    LET fromDocs == IF ~Nonzero(doc_salary) THEN FirstSlipExtract(c.uploaded_docs)
                    ELSE None
    IN  IF ~IsNone(fromDocs) THEN Val(fromDocs)
        ELSE IF ~IsNone(c.salary_slip_path) /\ ExtractFound(Val(c.salary_slip_path))
             THEN Val(c.salary_slip_path)
             ELSE NoExtract

\* the number of documents the loop over uploaded_docs hands to OCR: every
\* salary slip with bytes, up to and including the first with a salary
RECURSIVE OcrCallsInLoop(_)
OcrCallsInLoop(docs) ==
    IF docs = <<>> THEN 0
    ELSE LET d == Head(docs)
         IN  IF d.doc_type = "salary_slip" /\ d.has_bytes
             THEN IF ExtractFound(d.res) THEN 1
                  ELSE 1 + OcrCallsInLoop(Tail(docs))
             ELSE OcrCallsInLoop(Tail(docs))

\* the number of OCR extractions one evaluation of a found customer makes:
\* those of the loop, and one more on salary_slip_path when the loop found
\* no salary
OcrCalls(c) ==
    LET doc == DocMonthlySalary(c)
        inLoop == IF ~Nonzero(doc) THEN OcrCallsInLoop(c.uploaded_docs) ELSE 0
        fromDocs == IF ~Nonzero(doc) THEN FirstSlipExtract(c.uploaded_docs) ELSE None
    IN  inLoop + (IF IsNone(fromDocs) /\ ~IsNone(c.salary_slip_path) THEN 1 ELSE 0)

\* the priority chain: [monthly_salary, income_provenance, ocr_conf]
ResolveIncome(c, monthly_income_db) ==
    LET doc == DocMonthlySalary(c)
        explicit == ReadFloat(c.monthly_salary)
        ocr == OcrHere(c, doc)
    IN  IF Nonzero(doc) THEN
            [monthly_salary |-> doc, income_provenance |-> Some("doc_provided"),
             ocr_conf |-> IF Truthy(c.ocr_confidence) THEN c.ocr_confidence[2]
                          ELSE ocr.confidence]
        ELSE IF Nonzero(explicit) THEN
            [monthly_salary |-> explicit, income_provenance |-> Some("explicit_provided"),
             ocr_conf |-> ocr.confidence]
        ELSE IF ExtractFound(ocr) THEN
            [monthly_salary |-> ocr.monthly_salary, income_provenance |-> Some("ocr_extracted"),
             ocr_conf |-> ocr.confidence]
        ELSE IF Truthy(c.monthly_salary_from_db_estimate) THEN
            IF Parses(c.monthly_salary_from_db_estimate)
            THEN [monthly_salary |-> Some(c.monthly_salary_from_db_estimate[2]),
                  income_provenance |-> Some("db_estimate"), ocr_conf |-> ocr.confidence]
            ELSE [monthly_salary |-> None, income_provenance |-> None,
                  ocr_conf |-> ocr.confidence]
        ELSE IF monthly_income_db > 0 THEN
            [monthly_salary |-> Some(monthly_income_db),
             income_provenance |-> Some("db_derived"), ocr_conf |-> ocr.confidence]
        ELSE [monthly_salary |-> None, income_provenance |-> None,
              ocr_conf |-> ocr.confidence]

\* line 343 is outside every try: float() of a non-numeric confidence raises
\* when a document salary was selected
ConfidenceRaises(c) ==
    /\ Nonzero(DocMonthlySalary(c))
    /\ Truthy(c.ocr_confidence)
    /\ ~Parses(c.ocr_confidence)

\* the record returned when the customer is not found: it has no other key
NotFoundRecord == [decision |-> "rejected", reasons |-> <<"customer_not_found">>]

\* decision_obj as prepared before the gates
InitialDecision(ocr_conf) ==
    [decision |-> "rejected",
     reasons |-> <<>>,
     interest_rate |-> None,
     monthly_emi |-> None,
     loan_details |-> None,
     emi_ratio |-> None,
     monthly_salary_used |-> None,
     ocr_confidence |-> ocr_conf,
     requires_income_doc |-> FALSE,
     anomalies_detected |-> <<>>,
     flag_for_manual_review |-> FALSE]

\* variant: an amount equal to the limit is priced at the higher rate
AnnualRate_Strict(loan_amount, pre_limit) ==
    IF loan_amount < pre_limit THEN BaseRate ELSE HighRate

\* annual_rate: 12.0 within the pre-approved limit, 14.0 above it
AnnualRate(loan_amount, pre_limit) ==
    IF loan_amount <= pre_limit THEN BaseRate ELSE HighRate

\* variant: the cap set at three times the limit
ExceedsCap_ThreeTimes(loan_amount, pre_limit) ==
    loan_amount > 3 * pre_limit /\ pre_limit > 0

\* the absolute cap
ExceedsCap(loan_amount, pre_limit) ==
    loan_amount > 2 * pre_limit /\ pre_limit > 0

\* variant: an amount equal to the limit is not instant
InstantEligible_Strict(loan_amount, pre_limit) == loan_amount < pre_limit

\* without income: `if loan_amount <= pre_limit` approves instantly
InstantEligible(loan_amount, pre_limit) == loan_amount <= pre_limit

\* variant: an EMI of exactly half the income is refused
Affordable_Strict(emi_val, monthly_salary) ==
    2 * emi_val < monthly_salary * EmiScale

\* emi_val <= 0.5 * monthly_salary
Affordable(emi_val, monthly_salary) ==
    2 * emi_val <= monthly_salary * EmiScale

\* variant: a ratio of exactly 3 is not a mismatch
SalaryMismatch_Strict(monthly_salary, monthly_income_db) ==
    /\ monthly_salary # 0
    /\ monthly_income_db > 0
    /\ \/ monthly_salary > MismatchRatio * monthly_income_db
       \/ monthly_income_db > MismatchRatio * monthly_salary

\* check 1: the income used against annual_income / 12
SalaryMismatch(monthly_salary, monthly_income_db) ==
    /\ monthly_salary # 0
    /\ monthly_income_db > 0
    /\ \/ monthly_salary >= MismatchRatio * monthly_income_db
       \/ monthly_income_db >= MismatchRatio * monthly_salary

\* check 2: 0 < ocr_conf < 0.45
LowOcrConfidence(ocr_conf) == ocr_conf > 0 /\ ocr_conf < LowConfidence

\* the anomaly records the two checks append, in the order of the code
Anomalies(monthly_salary, monthly_income_db, ocr_conf) ==
    (IF SalaryMismatch(monthly_salary, monthly_income_db)
     THEN <<[type |-> "salary_mismatch_detected",
             doc_salary |-> monthly_salary,
             db_salary |-> monthly_income_db]>>
     ELSE <<>>)
    \o
    (IF LowOcrConfidence(ocr_conf)
     THEN <<[type |-> "low_ocr_confidence", confidence |-> ocr_conf]>>
     ELSE <<>>)

\* f"LOAN{int(time.time()*1000)}": the id is the millisecond clock
EngineApplicationId(now_ms) == <<"LOAN", now_ms>>

\* loan_details of an approval
LoanDetails(application_id, loan_amount, rate, months, emi_ceil, fee) ==
    [application_id |-> application_id,
     loan_amount |-> loan_amount,
     interest_rate |-> rate,
     tenure_months |-> months,
     monthly_emi |-> emi_ceil,
     processing_fee |-> fee]

\* the branch taken once the score and the cap have passed
IncomeBranch(base, loan_amount, pre_limit, months, income, monthly_income_db, now_ms) ==
    LET annual_rate == AnnualRate(loan_amount, pre_limit)
        emi_val == _emi(loan_amount, annual_rate, months)
        emi_ceil == CeilEmi(emi_val)
        d0 == [base EXCEPT !.requires_income_doc = (loan_amount > pre_limit)]
        ms == income.monthly_salary
    IN  IF Nonzero(ms) /\ Val(ms) > 0 THEN
            LET d1 == [d0 EXCEPT !.emi_ratio = Some(emi_val \div Val(ms)),
                                 !.monthly_salary_used = ms]
            IN  IF Affordable(emi_val, Val(ms)) THEN
                    LET an == Anomalies(Val(ms), monthly_income_db, income.ocr_conf)
                    IN  [d1 EXCEPT !.decision = "approved",
                                   !.interest_rate = Some(annual_rate),
                                   !.monthly_emi = Some(emi_ceil),
                                   !.loan_details = Some(LoanDetails(
                                        EngineApplicationId(now_ms), loan_amount,
                                        annual_rate, months, emi_ceil,
                                        IF annual_rate > BaseRate THEN HighRateFee ELSE 0)),
                                   !.anomalies_detected = an,
                                   !.flag_for_manual_review = (an # <<>>)]
                        @@ [approval_type |-> "income_check_passed",
                            income_provenance |-> income.income_provenance]
                ELSE
                    [d1 EXCEPT !.decision = "rejected",
                               !.reasons = <<"emi_exceeds_50_percent_of_salary">>,
                               !.interest_rate = Some(annual_rate),
                               !.monthly_emi = Some(emi_ceil)]
                    @@ [income_provenance |-> income.income_provenance]
        ELSE IF InstantEligible(loan_amount, pre_limit) THEN
            [d0 EXCEPT !.decision = "approved",
                       !.interest_rate = Some(BaseRate),
                       !.monthly_emi = Some(emi_ceil),
                       !.loan_details = Some(LoanDetails(EngineApplicationId(now_ms),
                                                         loan_amount, BaseRate,
                                                         months, emi_ceil, 0))]
            @@ [approval_type |-> "instant",
                income_provenance |-> Some("instant_no_doc")]
        ELSE
            [d0 EXCEPT !.decision = "needs_salary_slip",
                       !.reasons = <<"salary_slip_required">>,
                       !.monthly_emi = Some(emi_ceil),
                       !.interest_rate = Some(annual_rate)]
            @@ [income_provenance |->
                    IF IsNone(income.income_provenance) THEN Some("missing")
                    ELSE income.income_provenance]

\* the gates in order: score, cap, income
Gates(base, credit_score, loan_amount, pre_limit, months, income, monthly_income_db, now_ms) ==
    IF credit_score < ScoreThreshold THEN
        [base EXCEPT !.decision = "rejected",
                     !.reasons = <<"credit_score_below_700">>]
    ELSE IF ExceedsCap(loan_amount, pre_limit) THEN
        [base EXCEPT !.decision = "rejected",
                     !.reasons = <<"amount_exceeds_two_times_preapproved">>]
    ELSE IncomeBranch(base, loan_amount, pre_limit, months, income, monthly_income_db,
                      now_ms)

\* the tracing fields added after the gates (lines 511-517)
Tracing(d, credit_score, monthly_income_db) ==
    LET d1 == d @@ [credit_score_used |-> credit_score]
    IN  IF IsNone(d1.monthly_salary_used) /\ monthly_income_db > 0
        THEN [d1 EXCEPT !.monthly_salary_used = Some(monthly_income_db)]
             @@ [income_provenance |-> Some("db_derived")]
        ELSE d1

\* UnderwritingAgent.handle: the content of the message it returns, or
\* None when it raises
handle(c, db, bureau_resp, now_ms) ==
    LET found == IF c.customer_id # NoId THEN get_customer(db, c.customer_id) ELSE None
    IN  IF IsNone(found) THEN Some(NotFoundRecord)
        ELSE IF ConfidenceRaises(c) THEN None
        ELSE
          LET customer == Val(found)
              loan_amount == CoerceAmount(c.loan_amount)
              months == CoerceTenure(c.tenure_months)
              credit_score == CreditScoreUsed(customer, bureau_resp)
              pre_limit == customer.pre_approved_limit
              monthly_income_db == customer.annual_income \div 12
              income == ResolveIncome(c, monthly_income_db)
              base == InitialDecision(income.ocr_conf)
          IN  Some(Tracing(Gates(base, credit_score, loan_amount, pre_limit, months,
                                 income, monthly_income_db, now_ms),
                           credit_score, monthly_income_db))

-----------------------------------------------------------------------------
(* LoanOrchestrator._underwriting_node *)

\* SalesAgent.handle: offer.max_amount, None when the customer is unknown
SalesOfferMax(db, customer_id) ==
    LET found == IF customer_id # NoId THEN get_customer(db, customer_id) ELSE None
    IN  IF IsNone(found) THEN None
        ELSE IF Val(found).pre_approved_limit # 0
             THEN Some(Val(found).pre_approved_limit)
             ELSE Some(SalesDefaultOffer)

\* pre_approved_limit as the node reads it from the database
NodePreApprovedLimit(db, customer_id) ==
    LET found == IF customer_id # NoId THEN get_customer(db, customer_id) ELSE None
    IN  IF IsNone(found) \/ Val(found).pre_approved_limit = 0 THEN None
        ELSE Some(Val(found).pre_approved_limit)

\* chosen_amount: the amount Sales parsed, else the offer, else the limit, else 0
ChosenAmount(db, st) ==
    LET offer_max == SalesOfferMax(db, st.customer_id)
        pre == NodePreApprovedLimit(db, st.customer_id)
    IN  IF Nonzero(st.requested_amount) /\ Val(st.requested_amount) > 0
        THEN Val(st.requested_amount)
        ELSE IF Nonzero(offer_max) /\ Val(offer_max) > 0 THEN Val(offer_max)
        ELSE IF Nonzero(pre) /\ Val(pre) > 0 THEN Val(pre)
        ELSE 0

\* tenure: the tenure Sales parsed, else 12
NodeTenure(st) ==
    IF Nonzero(st.requested_tenure) THEN Val(st.requested_tenure)
    ELSE OrchestratorDefaultTenure

\* requires_income_doc as the node computes it
NodeRequiresIncomeDoc(db, st) ==
    LET pre == NodePreApprovedLimit(db, st.customer_id)
    IN  ChosenAmount(db, st) # 0 /\ Nonzero(pre) /\ ChosenAmount(db, st) > Val(pre)

\* doc_salary: no key of the verification result carries a salary (the
\* verification agent is called with the customer id only), so it is the
\* monthly_salary_used of an earlier underwriting result of the flow, if any
NodeDocSalary(st) == st.prev_salary_used

\* the content the node hands to the engine
NodeContent(db, st) ==
    LET found == IF st.customer_id # NoId THEN get_customer(db, st.customer_id) ELSE None
        doc_salary == NodeDocSalary(st)
    IN  [customer_id |-> st.customer_id,
         loan_amount |-> Num(ChosenAmount(db, st)),
         tenure_months |-> Num(NodeTenure(st)),
         monthly_salary |-> Missing,
         monthly_salary_from_docs |->
             IF Nonzero(doc_salary) THEN Num(Val(doc_salary)) ELSE Missing,
         alt_doc_keys |-> <<Missing, Missing, Missing>>,
         ocr_confidence |-> IF Nonzero(doc_salary) THEN Num(0) ELSE Missing,
         uploaded_docs |-> <<>>,
         salary_slip_path |-> st.salary_slip_path,
         monthly_salary_from_db_estimate |->
             IF ~Nonzero(doc_salary) /\ ~IsNone(found) /\ Val(found).annual_income # 0
             THEN Num(Val(found).annual_income \div 12)
             ELSE Missing]

\* underwriting_result: the engine's record, with loan_details filled in
\* when the record has no such key
NodeResult(db, st, uw_out) ==
    LET withDetails ==
            IF "loan_details" \notin DOMAIN uw_out
            THEN uw_out @@ [loan_details |->
                     Some([loan_amount |-> ChosenAmount(db, st),
                           interest_rate |-> BaseRate,
                           tenure_months |-> NodeTenure(st),
                           monthly_emi |-> None])]
            ELSE uw_out
    IN  IF NodeRequiresIncomeDoc(db, st) /\ "requires_income_doc" \notin DOMAIN withDetails
        THEN withDetails @@ [requires_income_doc |-> TRUE]
        ELSE withDetails

\* uw.get("loan_details") is a non-empty dict
HasDetails(uw) == "loan_details" \in DOMAIN uw /\ ~IsNone(uw.loan_details)

-----------------------------------------------------------------------------
(* LoanOrchestrator.run_with_salary_slip: the payload it sends to the      *)
(* engine.  The amount and the tenure are the ones Sales parsed (absent    *)
(* when it parsed none), the slip goes as an uploaded document with bytes. *)
SlipPayload(st) ==
    [customer_id |-> st.customer_id,
     loan_amount |-> IF IsNone(st.requested_amount) THEN Missing
                     ELSE Num(Val(st.requested_amount)),
     tenure_months |-> IF IsNone(st.requested_tenure) THEN Missing
                       ELSE Num(Val(st.requested_tenure)),
     monthly_salary |-> Missing,
     monthly_salary_from_docs |-> Missing,
     alt_doc_keys |-> <<Missing, Missing, Missing>>,
     ocr_confidence |-> Missing,
     uploaded_docs |-> <<[doc_type |-> "salary_slip", has_bytes |-> TRUE,
                          res |-> Val(st.salary_slip_path)]>>,
     salary_slip_path |-> None,
     monthly_salary_from_db_estimate |-> Missing]

-----------------------------------------------------------------------------
(* SanctionAgent.handle *)

\* f"LOAN{datetime.now().strftime('%Y%m%d%H%M%S')}": an id of the sanction
\* agent's own, used when loan_details carries none
SanctionFallbackId(now_ms) == <<"LOAN_TS", now_ms>>

\* loan_details.get("application_id") or ... or the fallback
SanctionApplicationId(loan_details, now_ms) ==
    IF "application_id" \in DOMAIN loan_details
    THEN loan_details.application_id
    ELSE SanctionFallbackId(now_ms)

\* the answer when the decision is neither approved nor conditional
NotApprovedResult(cust_id, decision) ==
    [customer_id |-> cust_id, decision |-> decision, pdf_path |-> None,
     generated |-> FALSE, reason |-> "not_approved"]

\* the answer when rendering the letter raised
RenderFailedResult == [error |-> "pdf_render_failed", generated |-> FALSE]

\* the answer with the letter written; summary_application_id is the id
\* the summary message and the letter name
GeneratedResult(cust_id, decision, application_id) ==
    [customer_id |-> cust_id, decision |-> decision,
     pdf_path |-> Some(<<"generated_documents", cust_id>>),
     summary_application_id |-> application_id, generated |-> TRUE]

\* a variant that answers a rendering failure like a decision it will not
\* sanction
SanctionHandle_FailureAsNotApproved(cust_id, decision, loan_details, render_ok, now_ms) ==
    IF decision \notin {"approved", "conditional"} \/ ~render_ok
    THEN NotApprovedResult(cust_id, decision)
    ELSE GeneratedResult(cust_id, decision,
                         SanctionApplicationId(loan_details, now_ms))

\* SanctionAgent.handle on the payload of the orchestrator
SanctionHandle(cust_id, decision, loan_details, render_ok, now_ms) ==
    IF decision \notin {"approved", "conditional"}
    THEN NotApprovedResult(cust_id, decision)
    ELSE IF render_ok
         THEN GeneratedResult(cust_id, decision,
                              SanctionApplicationId(loan_details, now_ms))
         ELSE RenderFailedResult

\* loan_details after the call: handle writes the id it uses into the dict
\* it was given, which is the dict of the underwriting result
LoanDetailsAfterSanction(decision, loan_details, now_ms) ==
    IF decision \in {"approved", "conditional"}
    THEN [k \in DOMAIN loan_details \cup {"application_id"} |->
              IF k = "application_id"
              THEN SanctionApplicationId(loan_details, now_ms)
              ELSE loan_details[k]]
    ELSE loan_details

-----------------------------------------------------------------------------
(* LoanOrchestrator._sanction_node *)

\* sanctioning paused: the engine asked for a salary slip
PendingResult(cust_id) ==
    [customer_id |-> cust_id, decision |-> "pending_salary_slip", generated |-> FALSE]

\* sanctioning skipped: the engine flagged the record for manual review
ManualReviewResult(cust_id, uw) ==
    [customer_id |-> cust_id, decision |-> "manual_review_required",
     anomalies |-> uw.anomalies_detected, generated |-> FALSE]

\* uw.get("flag_for_manual_review")
Flagged(uw) == "flag_for_manual_review" \in DOMAIN uw /\ uw.flag_for_manual_review

\* whether the node reaches SanctionAgent.handle
SanctionCalled(uw) ==
    uw.decision \notin {"needs_salary_slip", "pending_salary_slip"} /\ ~Flagged(uw)

\* the loan_details the node sends: those of the record when populated,
\* else a dict built from the record's top-level keys, all absent here
SanctionLoanDetails(uw) ==
    IF HasDetails(uw) THEN Val(uw.loan_details) ELSE [loan_amount |-> None]

\* sanction_result
SanctionNodeResult(cust_id, uw, render_ok, now_ms) ==
    IF uw.decision \in {"needs_salary_slip", "pending_salary_slip"}
    THEN PendingResult(cust_id)
    ELSE IF Flagged(uw) THEN ManualReviewResult(cust_id, uw)
    ELSE SanctionHandle(cust_id, uw.decision, SanctionLoanDetails(uw), render_ok, now_ms)

\* the underwriting result after the node: unchanged but for the id that
\* SanctionAgent.handle writes into its loan_details
UnderwritingAfterSanction(uw, now_ms) ==
    IF SanctionCalled(uw) /\ HasDetails(uw)
    THEN [uw EXCEPT !.loan_details =
              Some(LoanDetailsAfterSanction(uw.decision, Val(uw.loan_details), now_ms))]
    ELSE uw

\* run_with_salary_slip answers by itself when the engine still asks for a slip
SlipPendingResult == [decision |-> "pending_salary_slip"]

-----------------------------------------------------------------------------
(* Inputs *)

\* the customer row: the scores are the two at the threshold, the limit is
\* absent or 100, the annual income absent or 1200 (100 a month)
Profiles ==
    [credit_score : {699, 700},
     pre_approved_limit : {0, 100},
     annual_income : {0, 1200}]

\* what the credit bureau answers: no usable answer, or a score
BureauResponses ==
    {[ok |-> FALSE, credit_score |-> 0]} \cup
    {[ok |-> TRUE, credit_score |-> sc] : sc \in {699, 700}}

Tenures == {Missing, Num(-1), Num(1), Num(2)}

SlipDoc(res) == [doc_type |-> "salary_slip", has_bytes |-> TRUE, res |-> res]

\* the contents of a direct call for the known customer
KnownContents ==
    [customer_id : {KnownId},
     loan_amount : {Num(a) : a \in Amounts},
     tenure_months : Tenures,
     monthly_salary : {Missing, Num(202)},
     monthly_salary_from_docs : {Missing, Num(0), Num(-50), Num(101), Num(300)},
     alt_doc_keys : {<<Missing, Missing, Missing>>},
     ocr_confidence : {Missing, Num(30)},
     uploaded_docs : {<<>>, <<SlipDoc(NoExtract)>>, <<SlipDoc(Extract(202, 35))>>,
                      <<SlipDoc(NoExtract), SlipDoc(Extract(202, 35))>>},
     salary_slip_path : {None, Some(Extract(101, 75))},
     monthly_salary_from_db_estimate : {Missing, Bad, Num(100)}]

\* the contents of a direct call for a customer the database does not hold
UnknownContents ==
    [customer_id : {NoId, UnknownId},
     loan_amount : {Num(a) : a \in {0, 100}},
     tenure_months : {Num(1)},
     monthly_salary : {Missing},
     monthly_salary_from_docs : {Missing, Num(300)},
     alt_doc_keys : {<<Missing, Missing, Missing>>},
     ocr_confidence : {Missing, Bad},
     uploaded_docs : {<<>>, <<SlipDoc(Extract(202, 35))>>},
     salary_slip_path : {None, Some(Extract(101, 75))},
     monthly_salary_from_db_estimate : {Missing}]

\* the contents with defective numeric fields: absent, empty, non-numeric,
\* zero and negative amounts, tenures, salaries and confidences
DefectContents ==
    [customer_id : {KnownId},
     loan_amount : {Missing, Empty, Bad, Num(0), Num(-50), Num(50)},
     tenure_months : {Empty, Bad, Num(0), Num(1)},
     monthly_salary : {Missing, Empty, Bad},
     monthly_salary_from_docs : {Missing, Empty, Bad, Num(101)},
     alt_doc_keys : {<<Missing, Missing, Missing>>},
     ocr_confidence : {Missing, Empty, Bad, Num(0), Num(-10)},
     uploaded_docs : {<<>>},
     salary_slip_path : {None},
     monthly_salary_from_db_estimate : {Missing}]

Contents == KnownContents \cup UnknownContents \cup DefectContents

\* the flow states the orchestrator node is entered with
FlowStates ==
    [customer_id : {NoId, UnknownId, KnownId},
     requested_amount : {None} \cup {Some(a) : a \in Amounts},
     requested_tenure : {None, Some(1), Some(2)},
     salary_slip_path : {None, Some(Extract(101, 75))},
     prev_salary_used : {None, Some(100)}]

\* the offer of a customer without a limit is SalesDefaultOffer, beyond the
\* amounts of the model: such a flow carries a requested amount
FlowInRange(db, st) == ChosenAmount(db, st) \in Amounts

-----------------------------------------------------------------------------
(* The state machine *)

Init ==
    /\ customers \in [{KnownId} -> Profiles]
    /\ pc = "idle"
    /\ content = None
    /\ bureau = None
    /\ decision_obj = None
    /\ underwriting_result = None
    /\ clock = 0
    /\ issued = <<>>
    /\ run = None
    /\ stages = <<>>
    /\ sanction_result = None
    /\ reply = None
    /\ rendered = None
    /\ conversations = <<>>
    /\ shadow = <<>>
    /\ call = None
    /\ invoked = <<>>

\* whether the engine reaches the credit-bureau call
BureauCalled(c, db) ==
    c.customer_id # NoId /\ ~IsNone(get_customer(db, c.customer_id))

\* a caller sends a message to UnderwritingAgent.handle
DirectHandle ==
    /\ pc = "idle"
    /\ \E c \in Contents, b \in BureauResponses :
         /\ content' = Some(c)
         /\ bureau' = IF BureauCalled(c, customers) THEN Some(b) ELSE None
         /\ decision_obj' = handle(c, customers, b, clock)
         /\ pc' = IF IsNone(handle(c, customers, b, clock)) THEN "raised" ELSE "returned"
    /\ underwriting_result' = None
    /\ UNCHANGED <<customers, flow_vars, conv_vars>>

\* LoanOrchestrator._underwriting_node runs on a flow state
UnderwritingNode ==
    /\ pc = "idle"
    /\ \E st \in FlowStates, b \in BureauResponses :
         /\ FlowInRange(customers, st)
         /\ LET c == NodeContent(customers, st)
                out == handle(c, customers, b, clock)
            IN  /\ content' = Some(c)
                /\ bureau' = IF BureauCalled(c, customers) THEN Some(b) ELSE None
                /\ decision_obj' = out
                /\ underwriting_result' =
                       IF IsNone(out) THEN None
                       ELSE Some(NodeResult(customers, st, Val(out)))
                /\ pc' = IF IsNone(out) THEN "raised" ELSE "node_returned"
    /\ UNCHANGED <<customers, flow_vars, conv_vars>>

\* the caller takes the result; the engine keeps no state between calls
Return ==
    /\ pc # "idle"
    /\ pc' = "idle"
    /\ content' = None
    /\ bureau' = None
    /\ decision_obj' = None
    /\ underwriting_result' = None
    /\ UNCHANGED <<customers, flow_vars, conv_vars>>

Next == DirectHandle \/ UnderwritingNode \/ Return

Spec == Init /\ [][Next]_vars

-----------------------------------------------------------------------------
(* Pipeline runs.  A run is entered through LoanOrchestrator.run without a *)
(* slip ("graph": the compiled workflow), through run with a slip ("slip": *)
(* sales, verification, then run_with_salary_slip), or through a           *)
(* conversation of the master agent ("master": Sales from                  *)
(* _handle_exploring_needs, then _orchestrate_approval_flow when the       *)
(* amount is within the limit, else run_with_salary_slip on the upload).   *)

MaxClock == 1
MaxIssued == 2

Entries == {"graph", "slip", "master"}

\* the workflow of _build_workflow: entry point and edges
EntryPoint == "sales"
WorkflowEdges ==
    [sales |-> "verification", verification |-> "underwriting",
     underwriting |-> "sanction", sanction |-> "END"]

\* what Sales parsed and what the caller supplied, at the start of a run
RunStates ==
    [customer_id : {UnknownId, KnownId},
     requested_amount : {None, Some(50), Some(150), Some(250)},
     requested_tenure : {None, Some(1)},
     salary_slip_path : {None, Some(NoExtract), Some(Extract(101, 75)),
                         Some(Extract(202, 35))},
     prev_salary_used : {None}]

\* the two checks of _handle_exploring_needs before it calls Sales
MasterEligible(db, st) ==
    LET found == get_customer(db, st.customer_id)
    IN  /\ ~IsNone(found)
        /\ Nonzero(st.requested_amount) /\ Nonzero(st.requested_tenure)
        /\ ~(Val(found).credit_score < ScoreThreshold)
        /\ ~(Val(st.requested_amount) > 2 * Val(found).pre_approved_limit)

\* _handle_awaiting_confirmation: above the limit the slip is asked for
MasterNeedsSlip(db, st) ==
    Val(st.requested_amount) > Val(get_customer(db, st.customer_id)).pre_approved_limit

\* the runs that can start
RunEnabled(db, entry, st, merges) ==
    /\ FlowInRange(db, st)
    /\ entry = "graph" => IsNone(st.salary_slip_path)
    /\ entry = "slip" => ~IsNone(st.salary_slip_path) /\ merges
    /\ entry = "master" =>
          /\ merges
          /\ MasterEligible(db, st)
          /\ MasterNeedsSlip(db, st) <=> ~IsNone(st.salary_slip_path)

\* whether the underwriting stage of the run is run_with_salary_slip's
\* direct call to the engine (else it is _underwriting_node)
ViaSlip(db, r) ==
    r.entry = "slip" \/ (r.entry = "master" /\ MasterNeedsSlip(db, r.st))

\* the state the nodes of the workflow read: the library either merges each
\* node's output into the state or replaces the state by it; replaced, the
\* state holds nothing of the request any more
NodeView(r) ==
    IF r.entry = "graph" /\ ~r.merges
    THEN [customer_id |-> NoId, requested_amount |-> None, requested_tenure |-> None,
          salary_slip_path |-> None, prev_salary_used |-> None]
    ELSE r.st

\* the stage that follows Sales
AfterSales(db, r) ==
    IF r.entry = "graph" THEN WorkflowEdges["sales"]
    ELSE IF r.entry = "master" /\ MasterNeedsSlip(db, r.st) THEN "underwriting"
    ELSE "verification"

\* the stage that follows verification
AfterVerification(r) ==
    IF r.entry = "graph" THEN WorkflowEdges["verification"] ELSE "underwriting"

\* the stage that follows underwriting, given its result
AfterUnderwriting(db, r, uw) ==
    IF r.entry = "graph" THEN WorkflowEdges["underwriting"]
    ELSE IF ViaSlip(db, r)
         THEN IF uw.decision \in {"needs_salary_slip", "pending_salary_slip"}
              THEN "END" ELSE "sanction"
    ELSE IF uw.decision = "approved" THEN "sanction" ELSE "END"

\* san_out.get("pdf_path")
PdfPath(san) ==
    IF IsNone(san) \/ "pdf_path" \notin DOMAIN Val(san) THEN None ELSE Val(san).pdf_path

\* building the analysis message raises on an underwriting result whose
\* loan_details is None (loan_details.get) or whose monthly_salary_used is
\* None (monthly_salary_used > 0): uw_out.get(key, default) gives the
\* default only when the key is absent
AnalysisRaises(uw) ==
    \/ "loan_details" \in DOMAIN uw /\ IsNone(uw.loan_details)
    \/ "monthly_salary_used" \in DOMAIN uw /\ IsNone(uw.monthly_salary_used)

\* what the master agent answers once the flow has ended
MasterReply(db, r, uw, san) ==
    IF ViaSlip(db, r) /\ AnalysisRaises(uw)
    THEN [state |-> "awaiting_document", next_action |-> "upload_document",
          sanction_letter_path |-> None, application_id |-> None]
    ELSE IF uw.decision = "approved"
    THEN [state |-> "completed", next_action |-> "download",
          sanction_letter_path |-> PdfPath(san),
          application_id |-> IF HasDetails(uw) /\ "application_id" \in DOMAIN Val(uw.loan_details)
                             THEN Some(Val(uw.loan_details).application_id) ELSE None]
    ELSE IF ~ViaSlip(db, r) /\ uw.decision \in {"needs_salary_slip", "pending_salary_slip"}
    THEN [state |-> "awaiting_document", next_action |-> "upload_document",
          sanction_letter_path |-> None, application_id |-> None]
    ELSE [state |-> "completed", next_action |-> "none",
          sanction_letter_path |-> None, application_id |-> None]

\* a run starts
StartRun ==
    /\ pc = "idle"
    /\ Len(issued) < MaxIssued
    /\ \E entry \in Entries, st \in RunStates, merges \in BOOLEAN :
         /\ RunEnabled(customers, entry, st, merges)
         /\ run' = Some([entry |-> entry, st |-> st, merges |-> merges])
    /\ pc' = EntryPoint
    /\ stages' = <<>>
    /\ UNCHANGED <<customers, content, bureau, decision_obj, underwriting_result,
                   clock, issued, sanction_result, reply, rendered, conv_vars>>

\* SalesAgent.handle is called
SalesStage ==
    /\ pc = "sales"
    /\ stages' = Append(stages, "sales")
    /\ pc' = AfterSales(customers, Val(run))
    /\ UNCHANGED <<customers, content, bureau, decision_obj, underwriting_result,
                   clock, issued, run, sanction_result, reply, rendered, conv_vars>>

\* VerificationAgent.handle is called
VerificationStage ==
    /\ pc = "verification"
    /\ stages' = Append(stages, "verification")
    /\ pc' = AfterVerification(Val(run))
    /\ UNCHANGED <<customers, content, bureau, decision_obj, underwriting_result,
                   clock, issued, run, sanction_result, reply, rendered, conv_vars>>

\* the engine is called, by _underwriting_node or by run_with_salary_slip
UnderwritingStage ==
    /\ pc = "underwriting"
    /\ \E b \in BureauResponses :
         LET r == Val(run)
             view == NodeView(r)
             c == IF ViaSlip(customers, r) THEN SlipPayload(r.st)
                  ELSE NodeContent(customers, view)
             out == handle(c, customers, b, clock)
             uw == IF ViaSlip(customers, r) THEN Val(out)
                   ELSE NodeResult(customers, view, Val(out))
             next == AfterUnderwriting(customers, r, uw)
         IN  /\ content' = Some(c)
             /\ bureau' = IF BureauCalled(c, customers) THEN Some(b) ELSE None
             /\ decision_obj' = out
             /\ stages' = Append(stages, "underwriting")
             /\ IF IsNone(out)
                THEN /\ pc' = "raised"
                     /\ UNCHANGED <<underwriting_result, issued, sanction_result, reply>>
                ELSE /\ pc' = next
                     /\ underwriting_result' = Some(uw)
                     /\ issued' = IF uw.decision = "approved"
                                  THEN Append(issued, Val(uw.loan_details).application_id)
                                  ELSE issued
                     /\ sanction_result' =
                            IF next = "END" /\ ViaSlip(customers, r)
                            THEN Some(SlipPendingResult) ELSE sanction_result
                     /\ reply' = IF next = "END" /\ r.entry = "master"
                                 THEN Some(MasterReply(customers, r, uw, None))
                                 ELSE reply
    /\ UNCHANGED <<customers, clock, run, rendered, conv_vars>>

\* _sanction_node is called
SanctionStage ==
    /\ pc = "sanction"
    /\ \E render_ok \in BOOLEAN :
         LET r == Val(run)
             uw == Val(underwriting_result)
             san == SanctionNodeResult(NodeView(r).customer_id, uw, render_ok, clock)
             uw_after == UnderwritingAfterSanction(uw, clock)
         IN  /\ sanction_result' = Some(san)
             /\ rendered' = IF SanctionCalled(uw) /\ uw.decision \in {"approved", "conditional"}
                            THEN Some(render_ok) ELSE None
             /\ underwriting_result' = Some(uw_after)
             /\ reply' = IF r.entry = "master"
                         THEN Some(MasterReply(customers, r, uw, Some(san)))
                         ELSE reply
    /\ stages' = Append(stages, "sanction")
    /\ pc' = WorkflowEdges["sanction"]
    /\ UNCHANGED <<customers, content, bureau, decision_obj, clock, issued, run, conv_vars>>

\* the run has ended (or the engine raised) and its results are taken
FinishRun ==
    /\ pc \in {"END", "raised"}
    /\ ~IsNone(run)
    /\ pc' = "idle"
    /\ run' = None
    /\ stages' = <<>>
    /\ content' = None
    /\ bureau' = None
    /\ decision_obj' = None
    /\ underwriting_result' = None
    /\ sanction_result' = None
    /\ reply' = None
    /\ rendered' = None
    /\ UNCHANGED <<customers, clock, issued, conv_vars>>

\* the millisecond clock advances
Tick ==
    /\ clock < MaxClock
    /\ clock' = clock + 1
    /\ UNCHANGED <<engine_vars, issued, run, stages, sanction_result, reply, rendered, conv_vars>>

FlowNext ==
    \/ StartRun \/ SalesStage \/ VerificationStage \/ UnderwritingStage
    \/ SanctionStage \/ FinishRun \/ Tick

FlowSpec == Init /\ [][FlowNext]_vars

-----------------------------------------------------------------------------
(* MasterAgent: the conversation table and the handlers of chat.  A user   *)
(* message is identified with what the handlers' regular expressions and   *)
(* keyword lists find in it; an uploaded file with what the extraction     *)
(* returns for it.  The text "I need <amount> for <tenure> months" that the *)
(* master agent writes for Sales is parsed back by Sales to the same amount *)
(* and tenure (every collected amount has four digits or more, every        *)
(* collected tenure is followed by "months").                               *)

MasterMinScore == 700
CleanupThreshold == 100
CleanupBatch == 50

\* chat calls per conversation
MaxChats == 6

\* conv_id = f"conv_{int(time.time() * 1000)}"
ConvId(now_ms) == now_ms

\* the entry start_conversation writes; the greeting is already in history
NewConversation(now_ms) ==
    [state |-> "greeting", customer_id |-> NoId, amount |-> 0, tenure |-> 0,
     history |-> 1, created_at |-> now_ms,
     underwriting_result |-> None, sanction_result |-> None]

\* a message: the phone number in it, whether it has a loan keyword, the
\* amount and the tenure the expressions find (0: none), the kind of word
\* (confirm, deny, other), whether it asks for the letter
Message(phone, wants_loan, amount, tenure, word, download) ==
    [phone |-> phone, wants_loan |-> wants_loan, amount |-> amount,
     tenure |-> tenure, word |-> word, download |-> download]

Messages ==
    {Message("none", FALSE, 0, 0, "other", FALSE),
     Message("none", TRUE, 0, 0, "other", FALSE),
     Message("known", FALSE, 0, 0, "other", FALSE),
     Message("unknown", FALSE, 0, 0, "other", FALSE),
     Message("known", TRUE, 0, 0, "other", FALSE),
     Message("none", FALSE, 0, 1, "other", FALSE),
     Message("none", FALSE, 0, 0, "confirm", FALSE),
     Message("none", FALSE, 0, 0, "deny", FALSE),
     Message("none", FALSE, 0, 0, "other", TRUE)}
    \cup {Message("none", FALSE, a, t, "other", FALSE) :
              a \in Amounts \ {0}, t \in {0, 1}}

\* what comes with a message in uploaded_file: nothing usable, or a salary
\* slip as the extraction reads it (no salary; one too low for any amount
\* above the limit; one that carries it, read with low and with good
\* confidence)
NoDocument == [kind |-> "none", res |-> NoExtract]
Slip(res) == [kind |-> "slip", res |-> res]
Documents ==
    {NoDocument} \cup
    {Slip(res) : res \in {NoExtract, Extract(101, 75), Extract(400, 35), Extract(400, 75)}}

\* _identify_customer: the customer whose phone the message carries
_identify_customer(db, msg) ==
    IF msg.phone = "known" /\ KnownId \in DOMAIN db THEN KnownId ELSE NoId

\* a response of chat: its state, next_action ("absent" when it has none),
\* data.rejection_reason ("" when it has none, "underwriting_reasons" when
\* it is the list of reasons of the engine)
Response(state, next_action, rejection_reason) ==
    [state |-> state, next_action |-> next_action, rejection_reason |-> rejection_reason]

\* what a handler does: the conversation it leaves, its response, the worker
\* agents it invoked, the decision of the underwriting evaluation it made
\* (None when it made none), whether it raised
Handled(conv, resp, agents, evaluated) ==
    [conv |-> conv, resp |-> resp, invoked |-> agents, evaluated |-> evaluated,
     raised |-> FALSE]

\* pre_approved_limit and credit_score as the handlers read them
ConvLimit(db, conv) ==
    LET found == IF conv.customer_id # NoId THEN get_customer(db, conv.customer_id) ELSE None
    IN  IF IsNone(found) THEN 0 ELSE Val(found).pre_approved_limit

ConvScore(db, conv) ==
    LET found == IF conv.customer_id # NoId THEN get_customer(db, conv.customer_id) ELSE None
    IN  IF IsNone(found) THEN 0 ELSE Val(found).credit_score

\* conv["flow"] as the orchestrator sees it once Sales has answered: the
\* request as Sales parsed it, and the salary of the underwriting result an
\* earlier evaluation of the conversation left in the flow
ConvFlowState(conv, slip) ==
    [customer_id |-> conv.customer_id,
     requested_amount |-> Some(conv.amount),
     requested_tenure |-> Some(conv.tenure),
     salary_slip_path |-> slip,
     prev_salary_used |->
         IF IsNone(conv.underwriting_result)
            \/ "monthly_salary_used" \notin DOMAIN Val(conv.underwriting_result)
         THEN None
         ELSE Val(conv.underwriting_result).monthly_salary_used]

\* _handle_greeting_state
_handle_greeting_state(db, conv, msg) ==
    LET customer_id == _identify_customer(db, msg)
    IN  IF customer_id # NoId
        THEN Handled([conv EXCEPT !.customer_id = customer_id, !.state = "exploring_needs"],
                     Response("exploring_needs", "wait", ""), <<>>, None)
        ELSE IF msg.wants_loan
        THEN Handled([conv EXCEPT !.state = "exploring_needs"],
                     Response("exploring_needs", "wait", ""), <<>>, None)
        ELSE Handled(conv, Response("greeting", "wait", ""), <<>>, None)

\* _handle_exploring_needs with its two eligibility checks in the other order
_handle_exploring_needs_CapFirst(db, conv, msg) ==
    LET c1 == IF conv.customer_id = NoId
              THEN [conv EXCEPT !.customer_id = _identify_customer(db, msg)]
              ELSE conv
        c2 == IF c1.amount = 0 THEN [c1 EXCEPT !.amount = msg.amount] ELSE c1
        c3 == IF c2.tenure = 0 THEN [c2 EXCEPT !.tenure = msg.tenure] ELSE c2
        pre_limit == ConvLimit(db, c3)
        credit_score == ConvScore(db, c3)
    IN  IF c3.customer_id = NoId \/ c3.amount = 0 \/ c3.tenure = 0
        THEN Handled(c3, Response("exploring_needs", "wait", ""), <<>>, None)
        ELSE IF c3.amount > 2 * pre_limit
        THEN Handled([c3 EXCEPT !.state = "completed"],
                     Response("completed", "none", "amount_exceeds_2x_limit"),
                     <<>>, None)
        ELSE IF credit_score < MasterMinScore
        THEN Handled([c3 EXCEPT !.state = "completed"],
                     Response("completed", "none", "credit_score_below_minimum"),
                     <<>>, None)
        ELSE Handled([c3 EXCEPT !.state = "awaiting_confirmation"],
                     Response("awaiting_confirmation", "confirm", ""),
                     <<"sales">>, None)

\* _handle_exploring_needs
_handle_exploring_needs(db, conv, msg) ==
    LET c1 == IF conv.customer_id = NoId
              THEN [conv EXCEPT !.customer_id = _identify_customer(db, msg)]
              ELSE conv
        c2 == IF c1.amount = 0 THEN [c1 EXCEPT !.amount = msg.amount] ELSE c1
        c3 == IF c2.tenure = 0 THEN [c2 EXCEPT !.tenure = msg.tenure] ELSE c2
        pre_limit == ConvLimit(db, c3)
        credit_score == ConvScore(db, c3)
    IN  IF c3.customer_id = NoId \/ c3.amount = 0 \/ c3.tenure = 0
        THEN Handled(c3, Response("exploring_needs", "wait", ""), <<>>, None)
        ELSE IF credit_score < MasterMinScore
        THEN Handled([c3 EXCEPT !.state = "completed"],
                     Response("completed", "none", "credit_score_below_minimum"),
                     <<>>, None)
        ELSE IF c3.amount > 2 * pre_limit
        THEN Handled([c3 EXCEPT !.state = "completed"],
                     Response("completed", "none", "amount_exceeds_2x_limit"),
                     <<>>, None)
        ELSE Handled([c3 EXCEPT !.state = "awaiting_confirmation"],
                     Response("awaiting_confirmation", "confirm", ""),
                     <<"sales">>, None)

\* _orchestrate_approval_flow from its call of the sanction node on
Orchestrated(conv, uw, san) ==
    IF uw.decision \in {"needs_salary_slip", "pending_salary_slip"}
    THEN Handled([conv EXCEPT !.state = "awaiting_document",
                              !.underwriting_result = Some(uw)],
                 Response("awaiting_document", "upload_document", ""),
                 <<"verification", "underwriting">>, Some(uw.decision))
    ELSE IF uw.decision = "approved"
    THEN Handled([conv EXCEPT !.state = "completed",
                              !.underwriting_result = Some(uw),
                              !.sanction_result = Some(san)],
                 Response("completed", "download", ""),
                 <<"verification", "underwriting", "sanction">>, Some(uw.decision))
    ELSE Handled([conv EXCEPT !.state = "completed",
                              !.underwriting_result = Some(uw)],
                 Response("completed", "none", ""),
                 <<"verification", "underwriting">>, Some(uw.decision))

\* _orchestrate_approval_flow from the answer out of the engine on; the
\* conversation is in PROCESSING when the engine raises
EngineAnswered(db, conv, st, out, render_ok, now_ms) ==
    IF IsNone(out)
    THEN [Handled([conv EXCEPT !.state = "processing"],
                  Response("processing", "absent", ""),
                  <<"verification", "underwriting">>, None)
          EXCEPT !.raised = TRUE]
    ELSE Orchestrated(conv, NodeResult(db, st, Val(out)),
                      SanctionNodeResult(conv.customer_id, NodeResult(db, st, Val(out)),
                                         render_ok, now_ms))

\* _orchestrate_approval_flow
_orchestrate_approval_flow(db, conv, bureau_resp, render_ok, now_ms) ==
    EngineAnswered(db, conv, ConvFlowState(conv, None),
                   handle(NodeContent(db, ConvFlowState(conv, None)), db, bureau_resp, now_ms),
                   render_ok, now_ms)

\* _handle_awaiting_confirmation asking for the slip at the limit already
_handle_awaiting_confirmation_AtLimit(db, conv, msg, bureau_resp, render_ok, now_ms) ==
    IF msg.word = "confirm"
    THEN IF conv.amount >= ConvLimit(db, conv)
         THEN Handled([conv EXCEPT !.state = "awaiting_document"],
                      Response("awaiting_document", "upload_document", ""), <<>>, None)
         ELSE _orchestrate_approval_flow(db, conv, bureau_resp, render_ok, now_ms)
    ELSE Handled(conv, Response("awaiting_confirmation", "wait", ""), <<>>, None)

\* _handle_awaiting_confirmation
_handle_awaiting_confirmation(db, conv, msg, bureau_resp, render_ok, now_ms) ==
    IF msg.word = "confirm"
    THEN IF conv.amount > ConvLimit(db, conv)
         THEN Handled([conv EXCEPT !.state = "awaiting_document"],
                      Response("awaiting_document", "upload_document", ""), <<>>, None)
         ELSE _orchestrate_approval_flow(db, conv, bureau_resp, render_ok, now_ms)
    ELSE Handled(conv, Response("awaiting_confirmation", "wait", ""), <<>>, None)

\* _handle_document_upload without the failure of the analysis message
Uploaded_AnalysisNeverRaises(conv, uw, san) ==
    IF uw.decision = "approved"
    THEN Handled([conv EXCEPT !.state = "completed",
                              !.underwriting_result = Some(uw),
                              !.sanction_result = Some(san)],
                 Response("completed", "download", ""),
                 IF san = SlipPendingResult THEN <<"underwriting">>
                 ELSE <<"underwriting", "sanction">>,
                 Some(uw.decision))
    ELSE Handled([conv EXCEPT !.state = "completed",
                              !.underwriting_result = Some(uw),
                              !.sanction_result = Some(san)],
                 Response("completed", "none", "underwriting_reasons"),
                 IF san = SlipPendingResult THEN <<"underwriting">>
                 ELSE <<"underwriting", "sanction">>,
                 Some(uw.decision))

\* _handle_document_upload from the result of run_with_salary_slip on: the
\* flow takes the two results, then the analysis message is built, which
\* may raise into the except of the handler
Uploaded(conv, uw, san) ==
    IF AnalysisRaises(uw)
    THEN Handled([conv EXCEPT !.underwriting_result = Some(uw),
                              !.sanction_result = Some(san)],
                 Response("awaiting_document", "upload_document", ""),
                 IF san = SlipPendingResult THEN <<"underwriting">>
                 ELSE <<"underwriting", "sanction">>,
                 Some(uw.decision))
    ELSE IF uw.decision = "approved"
    THEN Handled([conv EXCEPT !.state = "completed",
                              !.underwriting_result = Some(uw),
                              !.sanction_result = Some(san)],
                 Response("completed", "download", ""),
                 <<"underwriting", "sanction">>, Some(uw.decision))
    ELSE Handled([conv EXCEPT !.state = "completed",
                              !.underwriting_result = Some(uw),
                              !.sanction_result = Some(san)],
                 Response("completed", "none", "underwriting_reasons"),
                 IF san = SlipPendingResult THEN <<"underwriting">>
                 ELSE <<"underwriting", "sanction">>,
                 Some(uw.decision))

\* run_with_salary_slip from the answer out of the engine on, as
\* _handle_document_upload calls it; what it raises is caught there
WithSalarySlip(conv, out, render_ok, now_ms) ==
    IF IsNone(out)
    THEN Handled(conv, Response("awaiting_document", "upload_document", ""),
                 <<"underwriting">>, None)
    ELSE Uploaded(conv, Val(out),
                  IF Val(out).decision \in {"needs_salary_slip", "pending_salary_slip"}
                  THEN SlipPendingResult
                  ELSE SanctionNodeResult(conv.customer_id, Val(out), render_ok, now_ms))

\* _handle_document_upload
_handle_document_upload(db, conv, doc, bureau_resp, render_ok, now_ms) ==
    IF doc.kind # "slip"
    THEN Handled(conv, Response("awaiting_document", "upload_document", ""), <<>>, None)
    ELSE WithSalarySlip(conv,
                        handle(SlipPayload(ConvFlowState(conv, Some(doc.res))), db,
                               bureau_resp, now_ms),
                        render_ok, now_ms)

\* _handle_completed
_handle_completed(conv, msg) ==
    IF msg.download /\ ~IsNone(PdfPath(conv.sanction_result))
    THEN Handled(conv, Response("completed", "download", ""), <<>>, None)
    ELSE Handled(conv, Response("completed", "wait", ""), <<>>, None)

\* the dispatch of chat on the state of the conversation
Dispatch(db, conv, msg, doc, bureau_resp, render_ok, now_ms) ==
    IF conv.state = "greeting" THEN _handle_greeting_state(db, conv, msg)
    ELSE IF conv.state \in {"exploring_needs", "collecting_details"}
    THEN _handle_exploring_needs(db, conv, msg)
    ELSE IF conv.state \in {"awaiting_confirmation", "presenting_offer"}
    THEN _handle_awaiting_confirmation(db, conv, msg, bureau_resp, render_ok, now_ms)
    ELSE IF conv.state = "awaiting_document"
    THEN _handle_document_upload(db, conv, doc, bureau_resp, render_ok, now_ms)
    ELSE IF conv.state = "processing"
    THEN Handled(conv, Response("processing", "wait", ""), <<>>, None)
    ELSE IF conv.state = "completed" THEN _handle_completed(conv, msg)
    ELSE Handled(conv, Response("exploring_needs", "absent", ""), <<>>, None)

\* the conversation after chat: the handler's, with the state of the
\* response and the two messages logged (the user's alone when it raised)
AfterChat(h) ==
    IF h.raised THEN [h.conv EXCEPT !.history = @ + 1]
    ELSE [h.conv EXCEPT !.state = h.resp.state, !.history = @ + 2]

\* list_active_conversations
list_active_conversations(table) ==
    {id \in DOMAIN table : table[id].state # "closed"}

\* the entries the clean-up of end_conversation deletes: none up to
\* CleanupThreshold entries, else the CleanupBatch oldest by created_at
Oldest(table) ==
    IF Cardinality(DOMAIN table) > CleanupThreshold
    THEN {id \in DOMAIN table :
            Cardinality({other \in DOMAIN table :
                           table[other].created_at < table[id].created_at}) < CleanupBatch}
    ELSE {}

\* the table with one entry written
Put(table, id, conv) == [k \in DOMAIN table \cup {id} |-> IF k = id THEN conv ELSE table[k]]

\* the table without some entries
Without(table, ids) == [k \in DOMAIN table \ ids |-> table[k]]

\* the record of a call: which call, on which conversation, the state the
\* conversation was in ("absent" when the table did not hold it), whether
\* the call found it, the kind of word in its message ("absent" when it
\* has no message), its response, the decision of the underwriting
\* evaluation it made, and whether it raised
CallRecord(op, id, table, found, word, resp, evaluated, raised) ==
    Some([op |-> op, conv |-> id,
          before |-> IF id \in DOMAIN table THEN table[id].state ELSE "absent",
          found |-> found, word |-> word, resp |-> resp, evaluated |-> evaluated,
          raised |-> raised])

\* MasterAgent.start_conversation at the millisecond now_ms
start_conversation(now_ms) ==
    LET id == ConvId(now_ms)
    IN  /\ conversations' = Put(conversations, id, NewConversation(now_ms))
        /\ shadow' = Put(shadow, id, NewConversation(now_ms))
        /\ call' = CallRecord("start", id, conversations, TRUE, "absent",
                              Response("greeting", "absent", ""), None, FALSE)
        /\ invoked' = <<>>

\* chat from the handler's answer h on: the conversation is written back
\* and the call recorded
Answered(id, msg, h) ==
    /\ conversations' = Put(conversations, id, AfterChat(h))
    /\ shadow' = Put(shadow, id, AfterChat(h))
    /\ call' = CallRecord("chat", id, conversations, TRUE, msg.word, h.resp,
                          h.evaluated, h.raised)
    /\ invoked' = h.invoked

\* MasterAgent.chat
chat(id, msg, doc, bureau_resp, render_ok) ==
    IF id \notin DOMAIN conversations
    THEN /\ call' = CallRecord("chat", id, conversations, FALSE, msg.word,
                               Response("absent", "absent", ""), None, FALSE)
         /\ invoked' = <<>>
         /\ UNCHANGED <<conversations, shadow>>
    ELSE Answered(id, msg, Dispatch(customers, conversations[id], msg, doc, bureau_resp,
                                    render_ok, clock))

\* MasterAgent.end_conversation, with its clean-up
end_conversation(id) ==
    IF id \notin DOMAIN conversations
    THEN /\ call' = CallRecord("end", id, conversations, FALSE, "absent",
                               Response("absent", "absent", ""), None, FALSE)
         /\ invoked' = <<>>
         /\ UNCHANGED <<conversations, shadow>>
    ELSE LET closed == [conversations[id] EXCEPT !.state = "closed"]
             table == Put(conversations, id, closed)
         IN  /\ conversations' = Without(table, Oldest(table))
             /\ shadow' = Put(shadow, id, closed)
             /\ call' = CallRecord("end", id, conversations, TRUE, "absent",
                                   Response("closed", "absent", ""), None, FALSE)
             /\ invoked' = <<>>

\* a customer lands on the chatbot
StartConversation ==
    /\ start_conversation(clock)
    /\ UNCHANGED <<engine_vars, flow_vars>>

\* a message arrives for a conversation
Chat ==
    /\ \E id \in DOMAIN shadow, msg \in Messages, doc \in Documents,
          b \in BureauResponses, render_ok \in BOOLEAN :
         /\ id \in DOMAIN conversations => conversations[id].history < 1 + 2 * MaxChats
         /\ doc # NoDocument => /\ id \in DOMAIN conversations
                                /\ conversations[id].state = "awaiting_document"
         /\ chat(id, msg, doc, b, render_ok)
    /\ UNCHANGED <<engine_vars, flow_vars>>

\* a conversation is ended
EndConversation ==
    /\ \E id \in DOMAIN shadow : end_conversation(id)
    /\ UNCHANGED <<engine_vars, flow_vars>>

ConvNext == StartConversation \/ Chat \/ EndConversation

ConvSpec == Init /\ [][ConvNext]_vars

-----------------------------------------------------------------------------
(* The table under many conversations: one is started every millisecond,   *)
(* and once the table is nearly full, messages and closings arrive for the *)
(* oldest conversation and closings for the newest.                        *)

TableStarts == CleanupThreshold + 1

\* the table is within two entries of the clean-up threshold
TableBusy == clock >= CleanupThreshold - 1

\* a millisecond later another customer lands on the chatbot
StartNextConversation ==
    /\ clock < TableStarts
    /\ clock' = clock + 1
    /\ start_conversation(clock + 1)
    /\ UNCHANGED <<engine_vars, issued, run, stages, sanction_result, reply, rendered>>

\* a message arrives for the oldest conversation
TableChat ==
    /\ TableBusy
    /\ \E id \in {ConvId(1)}, msg \in {Message("none", TRUE, 0, 0, "other", FALSE)}, b \in BureauResponses :
         /\ id \in DOMAIN conversations => conversations[id].history < 1 + 2 * MaxChats
         /\ chat(id, msg, NoDocument, b, TRUE)
    /\ UNCHANGED <<engine_vars, flow_vars>>

\* the oldest or the newest conversation is ended
TableEnd ==
    /\ TableBusy
    /\ \E id \in {ConvId(1), ConvId(TableStarts)} \cap DOMAIN shadow :
         end_conversation(id)
    /\ UNCHANGED <<engine_vars, flow_vars>>

TableNext == StartNextConversation \/ TableChat \/ TableEnd

TableSpec == Init /\ [][TableNext]_vars

-----------------------------------------------------------------------------
(* What the properties read off a finished evaluation *)

\* the engine returned a record (it did not raise)
Evaluated == pc \in {"returned", "node_returned"}

\* the customer was found, so the gates ran
FoundRun == Evaluated /\ ~IsNone(bureau)

D == Val(decision_obj)
C == Val(content)
Cust == customers[KnownId]

\* the score the bureau gave, the stored one when it gave none
RunScore == IF Val(bureau).ok THEN Val(bureau).credit_score ELSE Cust.credit_score
RunAmount == IF C.loan_amount[1] = "num" THEN C.loan_amount[2] ELSE 0
RunLimit == Cust.pre_approved_limit
RunDbIncome == Cust.annual_income \div 12
RunOverCap == RunLimit > 0 /\ RunAmount > 2 * RunLimit
RunRate == IF RunAmount <= RunLimit THEN 12 ELSE 14
RunEmi == _emi(RunAmount, RunRate, CoerceTenure(C.tenure_months))

\* the score gate and the cap gate both passed
PastGates == FoundRun /\ RunScore >= 700 /\ ~RunOverCap

Populated(o) == ~IsNone(o)

-----------------------------------------------------------------------------
(* C1: whenever the credit score used for the decision (the bureau's, or   *)
(* the stored one when the bureau gave none) is below 700, the decision is *)
(* rejected with the single reason credit_score_below_700, whatever the    *)
(* amount, the tenure and the income evidence.                             *)
C1_ScoreBelow700Rejected ==
    (FoundRun /\ RunScore < 700) =>
        /\ D.decision = "rejected"
        /\ D.reasons = <<"credit_score_below_700">>
        /\ IsNone(D.loan_details)

\* a refreshed score below 700 overrides a stored 700, for an amount within
\* the limit and a document salary that would have sufficed
C1_Witness ==
    /\ FoundRun
    /\ Val(bureau).ok /\ Val(bureau).credit_score = 699 /\ Cust.credit_score = 700
    /\ RunAmount = 50 /\ RunLimit = 100
    /\ C.monthly_salary_from_docs = Num(300)
    /\ D.decision = "rejected"
    /\ D.reasons = <<"credit_score_below_700">>

-----------------------------------------------------------------------------
(* C2 as stated: for a customer with pre_approved_limit > 0, a requested   *)
(* amount above twice the limit is rejected and the reasons contain        *)
(* amount_exceeds_two_times_preapproved.                                   *)
C2_Original ==
    (FoundRun /\ RunOverCap) =>
        /\ D.decision = "rejected"
        /\ \E i \in DOMAIN D.reasons : D.reasons[i] = "amount_exceeds_two_times_preapproved"

(* C2 amended: such a request is always rejected; its reasons are exactly  *)
(* amount_exceeds_two_times_preapproved when the credit score used is at   *)
(* least 700, and exactly credit_score_below_700 otherwise (the score gate *)
(* comes first and is terminal).                                           *)
C2_CapRejected ==
    (FoundRun /\ RunOverCap) =>
        /\ D.decision = "rejected"
        /\ IsNone(D.loan_details)
        /\ D.reasons = IF RunScore >= 700
                       THEN <<"amount_exceeds_two_times_preapproved">>
                       ELSE <<"credit_score_below_700">>

\* over the cap with a good score and an income that would carry the EMI
C2_Witness ==
    /\ FoundRun /\ RunOverCap /\ RunScore >= 700
    /\ C.monthly_salary_from_docs = Num(300)
    /\ 2 * RunEmi <= 300 * EmiScale
    /\ D.decision = "rejected"
    /\ D.reasons = <<"amount_exceeds_two_times_preapproved">>

-----------------------------------------------------------------------------
(* C3: past the score and cap gates, with a positive monthly income        *)
(* resolved, the decision is approved exactly when EMI <= 0.5 * income     *)
(* (equality approves); otherwise it is rejected with the reason           *)
(* emi_exceeds_50_percent_of_salary.                                       *)
C3_AffordabilityBoundary ==
    LET inc == ResolveIncome(C, RunDbIncome).monthly_salary
    IN  (PastGates /\ Populated(inc) /\ Val(inc) > 0) =>
            /\ D.decision \in {"approved", "rejected"}
            /\ (D.decision = "approved") <=> (2 * RunEmi <= Val(inc) * EmiScale)
            /\ (D.decision = "rejected") =>
                   D.reasons = <<"emi_exceeds_50_percent_of_salary">>

\* the EMI is exactly half of the income, and the request is approved
C3_Witness ==
    /\ PastGates
    /\ RunAmount = 100 /\ C.tenure_months = Num(1)
    /\ C.monthly_salary = Num(202) /\ D.monthly_salary_used = Some(202)
    /\ RunEmi = 101 * EmiScale
    /\ D.decision = "approved"

-----------------------------------------------------------------------------
(* C4: the EMI compared with half of the income is the ceiling-rounded EMI *)
(* the record reports: every income-checked approval has                   *)
(* monthly_emi <= 0.5 * monthly_salary_used.                               *)
C4_CeilEmiWithinHalfIncome ==
    (FoundRun /\ D.decision = "approved" /\ D.approval_type = "income_check_passed") =>
        2 * Val(D.monthly_emi) <= Val(D.monthly_salary_used)

-----------------------------------------------------------------------------
(* C5: past the gates with no income candidate of any source (no document, *)
(* explicit, OCR or estimate value, annual_income 0): an amount within the *)
(* limit is approved as instant_no_doc at 12.0 with no fee; an amount      *)
(* above it gets needs_salary_slip, reason salary_slip_required, no terms. *)
NoIncomeCandidate ==
    /\ ~Present(C.monthly_salary_from_docs)
    /\ \A i \in DOMAIN C.alt_doc_keys : ~Present(C.alt_doc_keys[i])
    /\ ~Present(C.monthly_salary)
    /\ \A i \in DOMAIN C.uploaded_docs : IsNone(C.uploaded_docs[i].res.monthly_salary)
    /\ IsNone(C.salary_slip_path)
    /\ ~Present(C.monthly_salary_from_db_estimate)
    /\ Cust.annual_income = 0

C5_NoIncomeBranches ==
    (PastGates /\ NoIncomeCandidate) =>
        IF RunAmount <= RunLimit
        THEN /\ D.decision = "approved"
             /\ D.income_provenance = Some("instant_no_doc")
             /\ D.interest_rate = Some(12)
             /\ Populated(D.loan_details)
             /\ Val(D.loan_details).interest_rate = 12
             /\ Val(D.loan_details).processing_fee = 0
        ELSE /\ D.decision = "needs_salary_slip"
             /\ D.reasons = <<"salary_slip_required">>
             /\ IsNone(D.loan_details)

\* the amount equals the limit: still the instant path
C5_Witness ==
    /\ PastGates /\ NoIncomeCandidate
    /\ RunAmount = 100 /\ RunLimit = 100
    /\ D.decision = "approved"
    /\ D.income_provenance = Some("instant_no_doc")

-----------------------------------------------------------------------------
(* C6: an evaluation that passes the affordability gate with an income     *)
(* that differs from annual_income/12 by a ratio of 3 or more is still     *)
(* approved, with loan terms, a salary-mismatch anomaly and the            *)
(* manual-review flag.                                                     *)
C6_MismatchDoesNotBlock ==
    LET inc == ResolveIncome(C, RunDbIncome).monthly_salary
    IN  (/\ PastGates /\ Populated(inc) /\ Val(inc) > 0
         /\ 2 * RunEmi <= Val(inc) * EmiScale
         /\ RunDbIncome > 0
         /\ (Val(inc) >= 3 * RunDbIncome \/ RunDbIncome >= 3 * Val(inc))) =>
            /\ D.decision = "approved"
            /\ Populated(D.loan_details)
            /\ D.flag_for_manual_review
            /\ \E i \in DOMAIN D.anomalies_detected :
                   /\ D.anomalies_detected[i].type = "salary_mismatch_detected"
                   /\ D.anomalies_detected[i].doc_salary = Val(inc)
                   /\ D.anomalies_detected[i].db_salary = RunDbIncome

\* a document salary of 300 against 100 on record: the ratio is exactly 3
C6_Witness ==
    /\ PastGates
    /\ C.monthly_salary_from_docs = Num(300) /\ RunDbIncome = 100
    /\ RunAmount = 100
    /\ D.decision = "approved"
    /\ D.flag_for_manual_review
    /\ Len(D.anomalies_detected) = 1

-----------------------------------------------------------------------------
(* The income candidates of a request as the priority order names them:    *)
(* a candidate counts when it is a number strictly above zero.             *)
PositiveRaw(raw) == IF raw[1] = "num" /\ raw[2] > 0 THEN Some(raw[2]) ELSE None

RECURSIVE FirstPositiveRaw(_)
FirstPositiveRaw(raws) ==
    IF raws = <<>> THEN None
    ELSE IF Populated(PositiveRaw(Head(raws))) THEN PositiveRaw(Head(raws))
    ELSE FirstPositiveRaw(Tail(raws))

RECURSIVE FirstPositiveExtract(_)
FirstPositiveExtract(docs) ==
    IF docs = <<>> THEN None
    ELSE LET m == Head(docs).res.monthly_salary
         IN  IF Head(docs).doc_type = "salary_slip" /\ Head(docs).has_bytes
                /\ Populated(m) /\ Val(m) > 0
             THEN m
             ELSE FirstPositiveExtract(Tail(docs))

CandDoc == FirstPositiveRaw(<<C.monthly_salary_from_docs>> \o C.alt_doc_keys)
CandExplicit == PositiveRaw(C.monthly_salary)
CandOcr ==
    IF Populated(FirstPositiveExtract(C.uploaded_docs))
    THEN FirstPositiveExtract(C.uploaded_docs)
    ELSE IF Populated(C.salary_slip_path)
         THEN LET m == Val(C.salary_slip_path).monthly_salary
              IN  IF Populated(m) /\ Val(m) > 0 THEN m ELSE None
         ELSE None
CandDbEstimate == PositiveRaw(C.monthly_salary_from_db_estimate)
CandDbDerived == IF RunDbIncome > 0 THEN Some(RunDbIncome) ELSE None

\* the first candidate in priority order: <<value, provenance>>, or None
ExpectedIncome ==
    IF Populated(CandDoc) THEN Some(<<Val(CandDoc), "doc_provided">>)
    ELSE IF Populated(CandExplicit) THEN Some(<<Val(CandExplicit), "explicit_provided">>)
    ELSE IF Populated(CandOcr) THEN Some(<<Val(CandOcr), "ocr_extracted">>)
    ELSE IF Populated(CandDbEstimate) THEN Some(<<Val(CandDbEstimate), "db_estimate">>)
    ELSE IF Populated(CandDbDerived) THEN Some(<<Val(CandDbDerived), "db_derived">>)
    ELSE None

\* some candidate of the request is zero, negative or non-numeric
SomeInvalidCandidate ==
    \E raw \in {C.monthly_salary_from_docs, C.monthly_salary,
                C.monthly_salary_from_db_estimate} \cup
               {C.alt_doc_keys[i] : i \in DOMAIN C.alt_doc_keys} :
        Present(raw) /\ IsNone(PositiveRaw(raw))

-----------------------------------------------------------------------------
(* C7: the income the affordability check uses is the first candidate, in  *)
(* the order doc_provided, explicit_provided, ocr_extracted, db_estimate,  *)
(* db_derived, that is present and strictly positive, and the provenance   *)
(* reported names that source.                                             *)
C7_FirstPositiveCandidateUsed ==
    (PastGates /\ Populated(ExpectedIncome)) =>
        /\ Populated(D.emi_ratio)
        /\ D.monthly_salary_used = Some(Val(ExpectedIncome)[1])
        /\ D.income_provenance = Some(Val(ExpectedIncome)[2])

-----------------------------------------------------------------------------
(* C8: a candidate that is zero, negative or non-numeric is treated as     *)
(* absent: the decision, the income used and its provenance are those of   *)
(* the same request with every such candidate left out.                    *)
\* dict.get(key): the value, or None when the record has no such key
Field(rec, key) == IF key \in DOMAIN rec THEN rec[key] ELSE None

AsAbsent(raw) == IF Present(raw) /\ IsNone(PositiveRaw(raw)) THEN Missing ELSE raw

WithoutInvalid(c) ==
    [c EXCEPT !.monthly_salary_from_docs = AsAbsent(@),
              !.monthly_salary = AsAbsent(@),
              !.monthly_salary_from_db_estimate = AsAbsent(@),
              !.alt_doc_keys = [i \in DOMAIN @ |-> AsAbsent(@[i])]]

C8_InvalidCandidateIsAbsent ==
    FoundRun =>
        LET clean == Val(handle(WithoutInvalid(C), customers, Val(bureau), clock))
        IN  /\ D.decision = clean.decision
            /\ D.emi_ratio = clean.emi_ratio
            /\ D.monthly_salary_used = clean.monthly_salary_used
            /\ Field(D, "income_provenance") = Field(clean, "income_provenance")

-----------------------------------------------------------------------------
(* C9: a request with a positive document salary, for a customer with a    *)
(* positive annual income, yields on every decision path a record whose    *)
(* monthly_salary_used is the document value and whose income_provenance   *)
(* is doc_provided.                                                        *)
C9_DocSalaryReportedOnEveryPath ==
    (FoundRun /\ Populated(CandDoc) /\ Cust.annual_income > 0) =>
        /\ D.monthly_salary_used = CandDoc
        /\ "income_provenance" \in DOMAIN D
        /\ D.income_provenance = Some("doc_provided")

-----------------------------------------------------------------------------
(* C10: in the engine's record and in the underwriting_result the          *)
(* orchestrator builds from it, loan_details is populated exactly when     *)
(* the decision is approved.                                               *)
HasLoanDetails(rec) == "loan_details" \in DOMAIN rec /\ Populated(rec.loan_details)

C10_LoanDetailsIffApproved ==
    /\ Evaluated => (HasLoanDetails(D) <=> D.decision = "approved")
    /\ Populated(underwriting_result) =>
           (HasLoanDetails(Val(underwriting_result))
                <=> Val(underwriting_result).decision = "approved")

\* the engine's half of C10, which the engine keeps
C10_EngineRecordOnly ==
    Evaluated => (HasLoanDetails(D) <=> D.decision = "approved")

\* C7 on the requests that carry no zero, negative or non-numeric candidate
C7_OnValidCandidates ==
    ~(Evaluated /\ SomeInvalidCandidate) => C7_FirstPositiveCandidateUsed

\* C9 on the paths that reach the income check
C9_PastGatesOnly ==
    PastGates => C9_DocSalaryReportedOnEveryPath

-----------------------------------------------------------------------------
(* C11: in every decision record of a found customer, emi_ratio is         *)
(* populated exactly when income evidence with a positive amount was       *)
(* available to the evaluation, whichever gate produced the decision.      *)
C11_EmiRatioIffIncome ==
    FoundRun => (Populated(D.emi_ratio) <=> Populated(ExpectedIncome))

\* C11 past the score and cap gates, on requests without an invalid candidate
C11_PastGatesValidOnly ==
    (PastGates /\ ~SomeInvalidCandidate) =>
        (Populated(D.emi_ratio) <=> Populated(ExpectedIncome))

-----------------------------------------------------------------------------
(* C13: every approved decision has interest rate 12.0 and processing fee  *)
(* 0 when the amount is within the pre-approved limit, 14.0 and 5000 when  *)
(* it is above; the rate and EMI inside loan_details equal the top-level   *)
(* interest_rate and monthly_emi of the record.                            *)
C13_RateAndFeeByLimit ==
    (FoundRun /\ D.decision = "approved") =>
        /\ Populated(D.loan_details)
        /\ D.interest_rate = Some(IF RunAmount <= RunLimit THEN 12 ELSE 14)
        /\ Val(D.loan_details).processing_fee =
               (IF RunAmount <= RunLimit THEN 0 ELSE 5000)
        /\ Val(D.loan_details).interest_rate = Val(D.interest_rate)
        /\ Val(D.loan_details).monthly_emi = Val(D.monthly_emi)

\* an approval above the limit, and one exactly at the limit
C13_Witness ==
    /\ FoundRun /\ D.decision = "approved"
    /\ RunAmount = 150 /\ RunLimit = 100
    /\ D.interest_rate = Some(14)
    /\ Val(D.loan_details).processing_fee = 5000

-----------------------------------------------------------------------------
(* C14: for every evaluation of a found customer, requires_income_doc is   *)
(* true exactly when the amount is above the pre-approved limit, on every  *)
(* decision path, in the engine's record and in the underwriting_result    *)
(* of the orchestrator.                                                    *)
C14_RequiresIncomeDocIffAboveLimit ==
    FoundRun =>
        /\ D.requires_income_doc <=> (RunAmount > RunLimit)
        /\ Populated(underwriting_result) =>
               (Val(underwriting_result).requires_income_doc
                    <=> (RunAmount > RunLimit))

\* C14 past the score and cap gates
C14_PastGatesOnly ==
    PastGates => (D.requires_income_doc <=> (RunAmount > RunLimit))

-----------------------------------------------------------------------------
(* C15: for every request content, whatever is missing, empty,             *)
(* non-numeric, zero or negative among the amount, tenure, salary and      *)
(* confidence fields, handle returns a decision record and never raises.   *)
C15_HandleNeverRaises ==
    pc # "raised" /\ (pc = "returned" => Populated(decision_obj))

\* C15 on the requests that select no document salary
C15_WithoutDocSalary ==
    (pc # "idle" /\ ~Nonzero(DocMonthlySalary(C))) => pc # "raised"

-----------------------------------------------------------------------------
(* C16: a request whose amount is missing or unparsable (coerced to 0), or *)
(* whose tenure is not a positive integer, is never approved; no approved  *)
(* decision carries a loan amount of 0 or a monthly EMI of 0.              *)
AmountCoercedToZero == ~(Truthy(C.loan_amount) /\ Parses(C.loan_amount))
TenureNotPositive == ~(C.tenure_months[1] = "num" /\ C.tenure_months[2] > 0)

C16_ZeroAmountNeverApproved ==
    (FoundRun /\ pc # "raised") =>
        /\ (AmountCoercedToZero \/ TenureNotPositive) => D.decision # "approved"
        /\ D.decision = "approved" =>
               /\ Val(D.loan_details).loan_amount # 0
               /\ Val(D.monthly_emi) # 0

-----------------------------------------------------------------------------
(* C17: when the credit-bureau refresh fails, the evaluation completes and *)
(* its record is the one computed from the stored credit score; when the   *)
(* refresh succeeds, the score gate uses the bureau's score.               *)
StoredScoreAnswer == [ok |-> TRUE, credit_score |-> Cust.credit_score]

C17_BureauFallback ==
    (FoundRun /\ pc = "returned") =>
        IF Val(bureau).ok
        THEN /\ D.credit_score_used = Val(bureau).credit_score
             /\ (Val(bureau).credit_score < 700) <=>
                    (D.reasons = <<"credit_score_below_700">>)
        ELSE /\ D.credit_score_used = Cust.credit_score
             /\ decision_obj = handle(C, customers, StoredScoreAnswer, clock)

\* the refresh failed and the stored 700 carried the request to approval
C17_Witness ==
    /\ FoundRun /\ pc = "returned"
    /\ ~Val(bureau).ok /\ Cust.credit_score = 700
    /\ D.credit_score_used = 700
    /\ D.decision = "approved"

-----------------------------------------------------------------------------
(* C18: when the customer_id is missing or not in the customer store, the  *)
(* evaluation returns rejected with reason customer_not_found as a normal  *)
(* result, before any credit-bureau or OCR call and without evaluating any *)
(* later gate.                                                             *)
CustomerUnknown == C.customer_id = NoId \/ C.customer_id \notin DOMAIN customers

C18_CustomerNotFound ==
    (pc # "idle" /\ CustomerUnknown) =>
        /\ pc # "raised"
        /\ D.decision = "rejected"
        /\ D.reasons = <<"customer_not_found">>
        /\ DOMAIN D = {"decision", "reasons"}
        /\ IsNone(bureau)

\* an unknown id with a document salary, an unreadable confidence and a slip
C18_Witness ==
    /\ pc = "returned" /\ C.customer_id = UnknownId
    /\ C.monthly_salary_from_docs = Num(300) /\ C.ocr_confidence = Bad
    /\ Populated(C.salary_slip_path)
    /\ D.reasons = <<"customer_not_found">>
    /\ IsNone(bureau)

-----------------------------------------------------------------------------
\* the number of credit-bureau lookups of the evaluation
BureauCalls == IF IsNone(bureau) THEN 0 ELSE 1

\* C23: within one evaluation the credit-bureau lookup is invoked at most
\* once and the OCR extraction at most once, whatever the request carries.
C23_CollaboratorsAtMostOnce ==
    FoundRun => BureauCalls <= 1 /\ OcrCalls(C) <= 1

\* the bureau half of C23 alone
C23_BureauAtMostOnce == Evaluated => BureauCalls <= 1

-----------------------------------------------------------------------------
\* the record carries a low_ocr_confidence anomaly
HasLowConfidenceAnomaly(rec) ==
    \E i \in 1..Len(rec.anomalies_detected) :
        rec.anomalies_detected[i].type = "low_ocr_confidence"

\* the confidence that belongs to the evidence the record names: that of
\* the extraction for ocr_extracted, the one passed along with the salary
\* for doc_provided, none for any other evidence
EvidenceConfidence ==
    IF D.income_provenance = Some("ocr_extracted")
    THEN Some(OcrHere(C, DocMonthlySalary(C)).confidence)
    ELSE IF D.income_provenance = Some("doc_provided") /\ Truthy(C.ocr_confidence)
    THEN Some(C.ocr_confidence[2])
    ELSE None

\* C24: an approved decision carries a low_ocr_confidence anomaly exactly
\* when the income evidence used for the affordability check has a known
\* confidence below 0.45; the confidence of an extraction whose value was
\* not the evidence used triggers neither the anomaly nor the flag.
C24_LowConfidenceOfEvidenceUsed ==
    (/\ Evaluated
     /\ D.decision = "approved"
     /\ "approval_type" \in DOMAIN D
     /\ D.approval_type = "income_check_passed")
    => /\ HasLowConfidenceAnomaly(D)
           <=> (/\ ~IsNone(EvidenceConfidence)
                /\ Val(EvidenceConfidence) > 0
                /\ Val(EvidenceConfidence) < LowConfidence)
       /\ (IsNone(EvidenceConfidence) /\ Len(D.anomalies_detected) = 0)
           => ~D.flag_for_manual_review

\* C24 on the evaluations whose evidence is the extraction or the document
\* salary with its own confidence
C24_OnOcrEvidenceOnly ==
    (/\ Evaluated
     /\ D.decision = "approved"
     /\ "approval_type" \in DOMAIN D
     /\ D.approval_type = "income_check_passed"
     /\ ~IsNone(EvidenceConfidence))
    => (HasLowConfidenceAnomaly(D) <=> LowOcrConfidence(Val(EvidenceConfidence)))

-----------------------------------------------------------------------------
(* Pipeline claims, stated on FlowSpec *)

\* the stages in the order of the pipeline
StageRank == [sales |-> 1, verification |-> 2, underwriting |-> 3, sanction |-> 4]

\* the stages a run has invoked so far, as a set
Invoked == {stages[i] : i \in 1..Len(stages)}

\* the engine's id of the approved record of the run
EngineIdOfRun == Val(Val(underwriting_result).loan_details).application_id

\* C12: any two evaluations that end in approved carry distinct
\* application_ids, also when they complete within the same clock
\* millisecond, and the id the sanction stage uses is the engine's,
\* unchanged.
C12_DistinctApplicationIds ==
    /\ \A i, j \in 1..Len(issued) : i # j => issued[i] # issued[j]
    /\ (/\ pc = "END"
        /\ ~IsNone(sanction_result)
        /\ "summary_application_id" \in DOMAIN Val(sanction_result))
       => /\ Val(sanction_result).summary_application_id = issued[Len(issued)]
          /\ EngineIdOfRun = issued[Len(issued)]

\* the second half of C12 alone: the sanction stage uses the engine's id
C12_SanctionKeepsEngineId ==
    (/\ pc = "END"
     /\ ~IsNone(sanction_result)
     /\ "summary_application_id" \in DOMAIN Val(sanction_result))
    => /\ Val(sanction_result).summary_application_id = issued[Len(issued)]
       /\ EngineIdOfRun = issued[Len(issued)]

\* C19: in every pipeline run the stages are invoked in the order sales,
\* verification, underwriting, sanction, each at most once; underwriting
\* starts only after sales and verification have returned, sanction only
\* after underwriting has returned.
C19_StageOrder ==
    /\ \A i, j \in 1..Len(stages) :
          i < j => StageRank[stages[i]] < StageRank[stages[j]]
    /\ "underwriting" \in Invoked => {"sales", "verification"} \subseteq Invoked
    /\ "sanction" \in Invoked => "underwriting" \in Invoked

\* C19 on the runs of the compiled workflow and of run() alone
C19_OrchestratorRunsOnly ==
    (~IsNone(run) /\ Val(run).entry \in {"graph", "slip"}) => C19_StageOrder

\* rendering was attempted for an approved record and failed
RenderFailedForApproved ==
    /\ pc = "END"
    /\ rendered = Some(FALSE)
    /\ ~IsNone(underwriting_result)
    /\ Val(underwriting_result).decision = "approved"

\* C20: when rendering the letter fails for an approved decision, what
\* comes back is an explicit failure (an error, generated false) that no
\* rejection result can be taken for, and the underwriting record is still
\* approved, with the engine's loan details and id.
C20_RenderFailureReported ==
    RenderFailedForApproved =>
        LET san == Val(sanction_result)
            uw == Val(underwriting_result)
        IN  /\ "error" \in DOMAIN san
            /\ san.generated = FALSE
            /\ "decision" \notin DOMAIN san
            /\ \A d \in {"rejected", "needs_salary_slip", "manual_review"} :
                  san # NotApprovedResult(NodeView(Val(run)).customer_id, d)
            /\ uw.decision = "approved"
            /\ uw = IF ViaSlip(customers, Val(run))
                    THEN Val(decision_obj)
                    ELSE NodeResult(customers, NodeView(Val(run)), Val(decision_obj))
            /\ Val(run).entry = "master" =>
                  /\ Val(reply).state = "completed"
                  /\ Val(reply).next_action = "download"

C20_Witness ==
    /\ RenderFailedForApproved
    /\ Val(sanction_result) = RenderFailedResult
    /\ Val(run).entry = "master"

-----------------------------------------------------------------------------
(* Conversation claims *)

\* the last call was a chat that found its conversation
ChatAnswered == ~IsNone(call) /\ Val(call).op = "chat" /\ Val(call).found

\* the conversation of the last call, as the table holds it
Conv == conversations[Val(call).conv]

\* the conversation is of an identified customer whose stored score is
\* below the minimum
LowScore(conv) ==
    /\ conv.customer_id # NoId
    /\ ~IsNone(get_customer(customers, conv.customer_id))
    /\ ConvScore(customers, conv) < MasterMinScore

\* the last call was a message to a conversation collecting the request,
\* after which the customer is identified with a low score and the amount
\* and the tenure are collected
LowScoreCollected ==
    /\ ChatAnswered
    /\ Val(call).before \in {"exploring_needs", "collecting_details"}
    /\ LowScore(Conv)
    /\ Conv.amount # 0 /\ Conv.tenure # 0

\* C21: for an identified customer whose stored score is below 700, once
\* the amount and the tenure are collected the conversation is COMPLETED
\* with the rejection reason credit_score_below_minimum; no worker agent is
\* invoked for such a customer and no salary slip is asked for.
C21_LowScoreRejectedAtOnce ==
    /\ LowScoreCollected =>
          /\ Val(call).resp.state = "completed"
          /\ Val(call).resp.next_action = "none"
          /\ Val(call).resp.rejection_reason = "credit_score_below_minimum"
          /\ Conv.state = "completed"
          /\ invoked = <<>>
    /\ \A id \in DOMAIN conversations :
          LowScore(conversations[id]) =>
             /\ conversations[id].state \notin
                    {"awaiting_confirmation", "awaiting_document", "processing"}
             /\ IsNone(conversations[id].underwriting_result)
             /\ IsNone(conversations[id].sanction_result)
    /\ (ChatAnswered /\ LowScore(Conv)) =>
          /\ invoked = <<>>
          /\ Val(call).resp.next_action # "upload_document"

C21_Witness ==
    /\ LowScoreCollected
    /\ Val(call).resp.rejection_reason = "credit_score_below_minimum"
    /\ Conv.amount > 2 * ConvLimit(customers, Conv)

\* the last call was a confirmation of the offer
Confirmed ==
    /\ ChatAnswered
    /\ Val(call).before \in {"awaiting_confirmation", "presenting_offer"}
    /\ Val(call).word = "confirm"

\* the conversation is of a customer whose stored score is at least the
\* minimum and whose collected amount is within the pre-approved limit
WithinLimit(conv) ==
    /\ conv.customer_id # NoId
    /\ ~IsNone(get_customer(customers, conv.customer_id))
    /\ ConvScore(customers, conv) >= MasterMinScore
    /\ conv.amount # 0
    /\ conv.amount <= ConvLimit(customers, conv)

\* C22: for a customer with a score of at least 700 whose collected amount
\* is within the pre-approved limit, confirming never leads to a request for
\* a salary slip (no AWAITING_DOCUMENT, no next_action upload_document): it
\* runs verification and underwriting directly and ends COMPLETED.
C22_WithinLimitNoSlipRequest ==
    /\ (Confirmed /\ WithinLimit(Conv)) =>
          /\ Val(call).resp.state = "completed"
          /\ Conv.state = "completed"
          /\ Val(call).resp.next_action \in {"download", "none"}
          /\ Len(invoked) >= 2
          /\ SubSeq(invoked, 1, 2) = <<"verification", "underwriting">>
          /\ ~IsNone(Val(call).evaluated)
          /\ Val(Val(call).evaluated) \notin {"needs_salary_slip", "pending_salary_slip"}
    /\ \A id \in DOMAIN conversations :
          WithinLimit(conversations[id]) => conversations[id].state # "awaiting_document"

C22_Witness ==
    /\ Confirmed
    /\ WithinLimit(Conv)
    /\ Conv.amount = ConvLimit(customers, Conv)
    /\ Val(call).resp.next_action = "download"

\* the last call was a message to a conversation collecting the request,
\* after which the customer is identified with a score of at least the
\* minimum and the amount and the tenure are collected
EligibleCollected ==
    /\ ChatAnswered
    /\ Val(call).before \in {"exploring_needs", "collecting_details"}
    /\ Conv.customer_id # NoId
    /\ ~IsNone(get_customer(customers, Conv.customer_id))
    /\ ConvScore(customers, Conv) >= MasterMinScore
    /\ Conv.amount # 0 /\ Conv.tenure # 0

\* C25: the pre-check of the conversation agrees with the cap gate of the
\* engine: for a score of at least 700 the conversation rejects for
\* exceeding twice the limit exactly when the engine would (the limit is
\* positive and the amount is above twice the limit), a limit of 0 included.
C25_PreCheckAgreesWithCapGate ==
    EligibleCollected =>
        ((Val(call).resp.rejection_reason = "amount_exceeds_2x_limit")
            <=> ExceedsCap(Conv.amount, ConvLimit(customers, Conv)))

\* without a limit of 0 the two checks agree
C25_AgreesForPositiveLimit ==
    (EligibleCollected /\ ConvLimit(customers, Conv) > 0) =>
        ((Val(call).resp.rejection_reason = "amount_exceeds_2x_limit")
            <=> ExceedsCap(Conv.amount, ConvLimit(customers, Conv)))

-----------------------------------------------------------------------------
(* Sanction results of pipeline runs *)

\* a run has a sanction result next to its underwriting result
Sanctioned == ~IsNone(sanction_result) /\ ~IsNone(underwriting_result)

\* the sanction result says a letter was generated
LetterGenerated(san) ==
    /\ "generated" \in DOMAIN san /\ san.generated
    /\ "pdf_path" \in DOMAIN san /\ ~IsNone(san.pdf_path)

\* the sanction result says in so many words that none was
SaysNotGenerated(san) == "generated" \in DOMAIN san /\ san.generated = FALSE

\* C26: in every pipeline run a letter is generated (generated true, with a
\* pdf path) only if the underwriting decision is approved and not flagged
\* for manual review; a needs_salary_slip decision gives pending_salary_slip,
\* a flagged one manual_review_required, a rejected one a not-approved
\* result, each with generated = false.
C26_LetterOnlyWhenApprovedUnflagged ==
    Sanctioned =>
        LET san == Val(sanction_result)
            uw == Val(underwriting_result)
            pending == uw.decision \in {"needs_salary_slip", "pending_salary_slip"}
        IN  /\ LetterGenerated(san) => (uw.decision = "approved" /\ ~Flagged(uw))
            /\ pending =>
                  (san.decision = "pending_salary_slip" /\ SaysNotGenerated(san))
            /\ (~pending /\ Flagged(uw)) =>
                  (san.decision = "manual_review_required" /\ SaysNotGenerated(san))
            /\ (uw.decision = "rejected" /\ ~Flagged(uw)) =>
                  /\ san = NotApprovedResult(NodeView(Val(run)).customer_id, "rejected")
                  /\ SaysNotGenerated(san)

\* the same, a result without the key generated counting as generated = false
C26_NoLetterUnlessApprovedUnflagged ==
    Sanctioned =>
        LET san == Val(sanction_result)
            uw == Val(underwriting_result)
            pending == uw.decision \in {"needs_salary_slip", "pending_salary_slip"}
        IN  /\ LetterGenerated(san) => (uw.decision = "approved" /\ ~Flagged(uw))
            /\ pending =>
                  (san.decision = "pending_salary_slip" /\ ~LetterGenerated(san))
            /\ (~pending /\ Flagged(uw)) =>
                  (san.decision = "manual_review_required" /\ SaysNotGenerated(san))
            /\ (uw.decision = "rejected" /\ ~Flagged(uw)) =>
                  /\ san = NotApprovedResult(NodeView(Val(run)).customer_id, "rejected")
                  /\ SaysNotGenerated(san)

-----------------------------------------------------------------------------
(* Conversation claims on the outcome of an evaluation *)

\* the last call answered that the loan is approved and the letter ready
Announced ==
    /\ ChatAnswered
    /\ Val(call).resp.state = "completed"
    /\ Val(call).resp.next_action = "download"

\* C27: whenever the conversation answers that the loan is approved and the
\* sanction letter ready (COMPLETED with next_action download), the sanction
\* stage of the conversation generated a letter; an application flagged for
\* manual review is never announced as approved with a letter to download.
C27_AnnouncedLetterExists ==
    Announced =>
        /\ ~IsNone(Conv.sanction_result)
        /\ LetterGenerated(Val(Conv.sanction_result))
        /\ ~IsNone(Conv.underwriting_result)
        /\ ~Flagged(Val(Conv.underwriting_result))

\* what is announced is at least an approved decision
C27_AnnouncedIsApproved ==
    Announced =>
        /\ ~IsNone(Conv.underwriting_result)
        /\ Val(Conv.underwriting_result).decision = "approved"

\* the last call made an underwriting evaluation that asked for a salary slip
AskedForSlip ==
    /\ ChatAnswered
    /\ Val(call).evaluated = Some("needs_salary_slip")

-----------------------------------------------------------------------------
(* Conversation claims on the table *)

\* the last call was a message to a conversation that end_conversation had closed
ChatAfterClose == ChatAnswered /\ Val(call).before = "closed"

\* C29: once end_conversation has put a conversation into CLOSED it stays
\* there: a later message leaves its state CLOSED, invokes no agent, and
\* the conversation never shows again in list_active_conversations.
C29_ClosedStaysClosed ==
    ChatAfterClose =>
        /\ Conv.state = "closed"
        /\ invoked = <<>>
        /\ Val(call).conv \notin list_active_conversations(conversations)

\* the message to a closed conversation itself invokes no agent
C29_ClosedChatInvokesNoAgent == ChatAfterClose => invoked = <<>>

\* C30: the clean-up of end_conversation removes closed conversations only:
\* every conversation that was started and is not ended is still in the
\* table, its state and its history intact.
C30_CleanupRemovesClosedOnly ==
    \A id \in DOMAIN shadow :
        shadow[id].state # "closed" =>
            /\ id \in DOMAIN conversations
            /\ conversations[id] = shadow[id]

\* up to the threshold of the clean-up no conversation is removed
C30_NothingRemovedBelowThreshold ==
    Cardinality(DOMAIN shadow) <= CleanupThreshold => conversations = shadow

====
